---------------------------- MODULE Spec2Model ----------------------------
(***************************************************************************)
(* Model of the member-join gatekeeper of src/NewMembers/joining.py:       *)
(* GuildEventHandler (the DM rate limiter dm_rate_limits, the guild        *)
(* metrics cache guild_cache, handle_member_join / handle_member_remove)   *)
(* and the module-level event callbacks that reach them.                   *)
(*                                                                         *)
(* Handlers are coroutines on one cooperative event loop: a handler runs   *)
(* without interruption from one await to the next, so every action below  *)
(* is the code between two awaits of one handler, and the handlers'        *)
(* program counters name the await a handler is suspended at.              *)
(*                                                                         *)
(* Time is counted in ticks, TicksPerHour to the hour; datetime.now() is   *)
(* the variable now.  None is modelled by NoneT for timestamps.            *)
(***************************************************************************)
EXTENDS Integers, Sequences, FiniteSets, TLC

\* ------------------------------------------------------------- bounds
\* Granularity of the clock: ticks per hour.
TicksPerHour == 2
\* Interleaved handlers: events delivered and clock advances in a behaviour.
MaxEvents == 2
MaxTicks == 1
\* Events handled one at a time: events delivered and clock advances.
MaxSeqEvents == 5
MaxSeqTicks == 2
\* Direct calls of update_guild_metrics and clock advances in the specification
\* of the guild metrics alone.
MaxCalls == 11
MaxCallTicks == 1
\* LiveSpec: events delivered.
MaxLiveEvents == 2
\* RaceSpec: join events delivered.
MaxRaceJoins == 3
\* RejoinSpec: member events delivered.
MaxRejoinEvents == 5
\* JoinsSpec: join events delivered.
MaxJoins == 3
\* Join events delivered, and clock advances, in the specification that counts joins.
MaxCountJoins == 2
MaxCountTicks == 1
\* Cache manager calls started, and clock advances, in the cache manager's specification.
MaxCacheCalls == 3
MaxCacheTicks == 2
\* Calls started in the specification of the guild locks.
MaxLockCalls == 4
\* Calls started in the specification of the manager's lifecycle.
MaxLifeCalls == 4
\* Vote button presses, handled one at a time and handled concurrently.
MaxSeqVotes == 3
MaxVotes == 2
\* Clock steps of the scheduler alone; clock steps and manual posts of the posts.
MaxSchedTicks == 4
MaxPostTicks == 2
MaxPosts == 2
\* Messages and embed edits seen by the drops tracker.
MaxDrops == 4

\* ------------------------------------------------- program constants
\* self.rate_limits (joining.py:58-63)
new_account_days == 30
max_dms_per_hour == 2
block_duration_hours == 24
\* handle_member_join's own age threshold (joining.py:262)
GateAgeDays == 90
\* timedelta(hours=1), the rate-limit window (joining.py:213)
WindowHours == 1
\* "if recent_joins > 10" (joining.py:142)
RapidJoinLimit == 10

TicksPerDay == 24 * TicksPerHour
WindowTicks == WindowHours * TicksPerHour
BlockTicks == block_duration_hours * TicksPerHour

Users == {"u1"}
Guilds == {"g1"}
Procs == {"h1", "h2"}

NoneT == -1

\* timedelta.days of a non-negative timedelta counted in ticks
Days(delta) == delta \div TicksPerDay

\* Account ages (in ticks, at time 0) the member is drawn from: well under both
\* thresholds, one tick short of the rate limiter's threshold, between the two
\* thresholds, one tick short of the gatekeeper's, above both.
AgeChoices ==
    { 10 * TicksPerDay,
      new_account_days * TicksPerDay - 1,
      45 * TicksPerDay,
      GateAgeDays * TicksPerDay - 1,
      100 * TicksPerDay }

\* Amounts by which the clock advances in one step.
TickSteps == {1, BlockTicks}

\* ------------------------------------------------- dictionaries
\* A dict is a function whose DOMAIN is the set of keys present.
EmptyDict == [k \in {} |-> 0]
Put(d, k, v) == [x \in (DOMAIN d) \cup {k} |-> IF x = k THEN v ELSE d[x]]
Del(d, k) == [x \in (DOMAIN d) \ {k} |-> d[x]]
\* defaultdict(int) read
Get(d, k) == IF k \in DOMAIN d THEN d[k] ELSE 0

VARIABLES
    now,             \* datetime.now(timezone.utc), in ticks
    created_at,      \* member.created_at of each user (negative: in the past)
    in_guild,        \* whether the bot is a member of the guild
    dm_rate_limits,  \* self.dm_rate_limits
    guild_cache,     \* self.guild_cache
    frame,           \* the coroutine in each handler slot: its position and locals
    streak,          \* history, per user: the rate-limited joins since the last cleanup
    joined,          \* history: users for whom a join event was delivered
    cleaned_blocked, \* history: users whose entry was deleted while blocked
    nevents,         \* history: events delivered so far
    nticks,          \* history: clock advances so far
    dms_sent,        \* history, per user: DMs delivered (kept where it is observed)
    join_times,      \* history, per guild: when each join event was delivered (same)
    initialized,     \* GuildCacheManager._initialized
    client,          \* GuildCacheManager._client is set
    cache_locks,     \* GuildCacheManager._cache_locks: guild -> lock
    locks,           \* the asyncio.Lock objects made so far: who holds, who waits
    servers,         \* the servers collection: guild -> stored record
    task,            \* the coroutines calling the cache manager
    opened,          \* history: an initialize() returned and no close() was called since
    cogs             \* the WYR cog and the drops tracker: the fields named below

\* The history kept only by the specifications that observe it.
observed == << dms_sent, join_times >>

\* The state of the cache manager (utils/cache.py), which no guild event
\* handler step changes.
cmvars == << initialized, client, cache_locks, locks, servers, task, opened >>

\* The state of the Would-You-Rather cog (daily/WYR.py) and of the drops
\* tracker (updates-drops/drops-tracker.py); neither shares state with the
\* guild event handlers or with the cache manager.
cogvars == << cogs >>

\* WYR.wyr_collection and wyr_leaderboard are attached (not None)
wyr_collection == cogs.wyr_collection
\* the WYR collection: question -> votes, vote_counts, used_count
questions == cogs.questions
\* the WYR_Leaderboard collection: user -> the user's entries
leaderboard == cogs.leaderboard
\* the WYR cog's coroutines in flight: votes, posts, scheduler runs
coro == cogs.coro
\* the drops tracker's monthly collection: <<coll, month>> -> count
stats_monthly == cogs.stats_monthly
\* the drops tracker's totals collection: coll -> totals document
stats_totals == cogs.stats_totals
\* DropsStatsCog._op_lock: who holds it, who waits
op_lock == cogs.op_lock
\* the drops tracker's listeners in flight
drop == cogs.drop
\* history: a database call of the drops tracker has raised
db_failed == cogs.db_failed

vars == << now, created_at, in_guild, dm_rate_limits, guild_cache, frame, streak,
           joined, cleaned_blocked, nevents, nticks, observed, cmvars, cogvars >>

\* ------------------------------------------------- the DM rate limiter
\* The default factory of self.dm_rate_limits, run at time t.
DefaultLimits(t) ==
    [ count |-> 0, last_reset |-> t, blocked_until |-> NoneT,
      total_attempts |-> 0, first_attempt |-> NoneT ]

\* self.dm_rate_limits[member.id]: the entry, created on first access.
LimitsOf(limits, u, t) == IF u \in DOMAIN limits THEN limits[u] ELSE DefaultLimits(t)

\* The attempt bookkeeping with first_attempt stamped on every attempt.
CountAttempt_Restamp(e, t) ==
    [e EXCEPT !.first_attempt = t, !.total_attempts = @ + 1]

\* "if user_limits['first_attempt'] is None: ...; user_limits['total_attempts'] += 1"
CountAttempt(e, t) ==
    [e EXCEPT !.first_attempt = IF @ = NoneT THEN t ELSE @,
              !.total_attempts = @ + 1]

\* The block check with <= for <: the block still holds at blocked_until itself.
IsBlocked_Inclusive(e, t) == e.blocked_until # NoneT /\ t <= e.blocked_until

\* "if user_limits.get('blocked_until') and now < user_limits['blocked_until']"
IsBlocked(e, t) == e.blocked_until # NoneT /\ t < e.blocked_until

\* The hourly reset without its "user_limits['blocked_until'] = None".
WindowReset_KeepBlock(e, t) ==
    IF t - e.last_reset >= WindowTicks
    THEN [e EXCEPT !.count = 0, !.last_reset = t]
    ELSE e

\* "if now - user_limits['last_reset'] >= timedelta(hours=1): ..."
WindowReset(e, t) ==
    IF t - e.last_reset >= WindowTicks
    THEN [e EXCEPT !.count = 0, !.last_reset = t, !.blocked_until = NoneT]
    ELSE e

\* The limit test with > for >=.
OverLimit_OffByOne(e) == e.count > max_dms_per_hour

\* "if user_limits['count'] >= self.rate_limits['max_dms_per_hour']"
OverLimit(e) == e.count >= max_dms_per_hour

\* "user_limits['blocked_until'] = now + timedelta(hours=block_duration_hours)"
Block(e, t) == [e EXCEPT !.blocked_until = t + BlockTicks]

\* The age test with > for >=.
OldEnough_Strict(age_days) == age_days > new_account_days

\* "if account_age.days >= self.rate_limits['new_account_days']"
OldEnough(age_days) == age_days >= new_account_days

\* can_send_dm with the hourly reset run before the block check, so that a
\* passed window lifts a block that is still in force.
can_send_dm_ResetFirst(limits, u, t, created) ==
    IF OldEnough(Days(t - created))
    THEN [allowed |-> TRUE, reason |-> "Account old enough", limits |-> limits]
    ELSE LET e1 == WindowReset(CountAttempt(LimitsOf(limits, u, t), t), t) IN
         IF IsBlocked(e1, t)
         THEN [allowed |-> FALSE, reason |-> "Blocked", limits |-> Put(limits, u, e1)]
         ELSE IF OverLimit(e1)
              THEN [allowed |-> FALSE, reason |-> "Rate limit exceeded",
                    limits |-> Put(limits, u, Block(e1, t))]
              ELSE [allowed |-> TRUE, reason |-> "Within limits",
                    limits |-> Put(limits, u, e1)]

\* can_send_dm(member) called at time t: the returned (allowed, reason) and the
\* dm_rate_limits it leaves.  The coroutine holds no await: it runs in one step.
can_send_dm(limits, u, t, created) ==
    IF OldEnough(Days(t - created))
    THEN [allowed |-> TRUE, reason |-> "Account old enough", limits |-> limits]
    ELSE LET e1 == CountAttempt(LimitsOf(limits, u, t), t) IN
         IF IsBlocked(e1, t)
         THEN [allowed |-> FALSE, reason |-> "Blocked", limits |-> Put(limits, u, e1)]
         ELSE LET e2 == WindowReset(e1, t) IN
              IF OverLimit(e2)
              THEN [allowed |-> FALSE, reason |-> "Rate limit exceeded",
                    limits |-> Put(limits, u, Block(e2, t))]
              ELSE [allowed |-> TRUE, reason |-> "Within limits",
                    limits |-> Put(limits, u, e2)]

\* The gatekeeper's age test with <= for <.
TooNew_Inclusive(age_days) == age_days <= GateAgeDays

\* handle_member_join: "if account_age.days < 90"
TooNew(age_days) == age_days < GateAgeDays

\* A record_dm_sent that counts the send as an attempt too.
RecordSend_CountsAttempt(e) == [e EXCEPT !.count = @ + 1, !.total_attempts = @ + 1]

\* record_dm_sent's change of the entry: "user_limits['count'] += 1"
RecordSend(e) == [e EXCEPT !.count = @ + 1]

\* record_dm_sent(member), up to its await: the dm_rate_limits it leaves.
record_dm_sent(limits, u, t) == Put(limits, u, RecordSend(LimitsOf(limits, u, t)))

\* A cleanup that resets the window's count and keeps the entry.
cleanup_ResetCount(limits, u) ==
    IF u \in DOMAIN limits THEN Put(limits, u, [limits[u] EXCEPT !.count = 0]) ELSE limits

\* handle_member_remove: "if member.id in self.dm_rate_limits: del ..."
cleanup(limits, u) == IF u \in DOMAIN limits THEN Del(limits, u) ELSE limits

\* ------------------------------------------------- the guild metrics cache
\* now.hour, now.strftime('%Y-%m-%d'), now.strftime('%Y-W%U'): time 0 is the
\* midnight that starts a week; the weeks of one year are numbered on.
HourOf(t) == (t \div TicksPerHour) % 24
DayOf(t) == t \div TicksPerDay
WeekOf(t) == DayOf(t) \div 7

\* The default factory of self.guild_cache.  The fields copied from the Discord
\* client's listing (member_count, bot_count, online_count, voice_channels_active,
\* role_distribution, popular_channels) take part in no decision and are left out.
DefaultGuild ==
    [ new_member_joins_today |-> 0,
      kicks_today |-> 0,
      last_activity |-> NoneT,
      join_patterns |-> [hourly |-> EmptyDict, daily |-> EmptyDict, weekly |-> EmptyDict],
      security_metrics |-> [suspicious_joins |-> 0, account_age_violations |-> 0,
                            rapid_joins |-> 0] ]

\* self.guild_cache[guild.id]: the entry, created on first access.
CacheOf(cache, g) == IF g \in DOMAIN cache THEN cache[g] ELSE DefaultGuild

\* An increment that loses what the bucket held.
Bump_Overwrite(d, k) == Put(d, k, 1)

\* "cache_data['join_patterns'][...][key] += 1" on a defaultdict(int)
Bump(d, k) == Put(d, k, Get(d, k) + 1)

\* The "member_join" branch of update_guild_metrics.
RecordJoin(cd, t, age_days) ==
    LET jp == [ hourly |-> Bump(cd.join_patterns.hourly, HourOf(t)),
                daily |-> Bump(cd.join_patterns.daily, DayOf(t)),
                weekly |-> Bump(cd.join_patterns.weekly, WeekOf(t)) ]
        rapid == IF jp.hourly[HourOf(t)] > RapidJoinLimit THEN 1 ELSE 0
        young == IF age_days < new_account_days THEN 1 ELSE 0
    IN [cd EXCEPT !.new_member_joins_today = @ + 1,
                  !.join_patterns = jp,
                  !.security_metrics.rapid_joins = @ + rapid,
                  !.security_metrics.account_age_violations = @ + young]

\* An update_guild_metrics whose last branch is an else: every type that is not
\* a join or a remove counts as a kick.
update_guild_metrics_ElseKick(cache, g, event_type, t, age_days) ==
    LET cd == CacheOf(cache, g)
        cd1 == CASE event_type = "member_join" -> RecordJoin(cd, t, age_days)
                 [] event_type = "member_remove" -> cd
                 [] OTHER -> [cd EXCEPT !.kicks_today = @ + 1]
    IN Put(cache, g, [cd1 EXCEPT !.last_activity = t])

\* update_guild_metrics(guild, event_type, member=member) at time t, up to its
\* await of cache_guild_info: the guild_cache it leaves.  age_days is
\* (now - member.created_at).days.
update_guild_metrics(cache, g, event_type, t, age_days) ==
    LET cd == CacheOf(cache, g)
        cd1 == CASE event_type = "member_join" -> RecordJoin(cd, t, age_days)
                 [] event_type = "member_kick" -> [cd EXCEPT !.kicks_today = @ + 1]
                 [] OTHER -> cd
    IN Put(cache, g, [cd1 EXCEPT !.last_activity = t])

\* An initialize_guild_cache that starts the join patterns afresh too.
InitCounters_ResetPatterns(cd, t) ==
    [cd EXCEPT !.new_member_joins_today = 0,
               !.kicks_today = 0,
               !.last_activity = t,
               !.join_patterns = [hourly |-> EmptyDict, daily |-> EmptyDict,
                                  weekly |-> EmptyDict],
               !.security_metrics = [suspicious_joins |-> 0,
                                     account_age_violations |-> 0,
                                     rapid_joins |-> 0]]

\* initialize_guild_cache after its awaits: today's counters and the security
\* metrics written through cache_data.
InitCounters(cd, t) ==
    [cd EXCEPT !.new_member_joins_today = 0,
               !.kicks_today = 0,
               !.last_activity = t,
               !.security_metrics = [suspicious_joins |-> 0,
                                     account_age_violations |-> 0,
                                     rapid_joins |-> 0]]

\* initialize_guild_cache up to its first await: "cache_data = self.guild_cache[guild.id]".
InitBegin(cache, g) == Put(cache, g, CacheOf(cache, g))

\* initialize_guild_cache from its last await on.  held: the cache_data it holds
\* is still the dict stored under guild.id; otherwise the writes go to a dict
\* that on_guild_remove has dropped from the cache.
InitFinish(cache, g, t, held) ==
    IF held /\ g \in DOMAIN cache THEN Put(cache, g, InitCounters(cache[g], t)) ELSE cache


\* ------------------------------------------------- coroutine frames
\* The frame of a handler invoked for member u of guild g.
NewFrame(kind, u, g) ==
    [ pc |-> "idle",          \* the await the coroutine is suspended at
      handler |-> kind,       \* which handler runs in the slot
      member |-> u,           \* its member argument
      guild |-> g,            \* member.guild, or its guild argument
      account_age |-> 0,      \* handle_member_join's account_age.days
      can_dm |-> FALSE,       \* handle_member_join's can_dm
      reason |-> "",          \* handle_member_join's reason
      dm_result |-> "none",   \* member.send returned ("ok") or raised ("failed")
      kick_result |-> "none", \* how member.kick ended
      kick_reason |-> NoneT,  \* the days in the kick's reason string
      ref_ok |-> FALSE,       \* initialize_guild_cache: cache_data is still the cached dict
      event_type |-> "none",  \* update_guild_metrics's event_type, when called directly
      flush_result |-> "none",\* how that call's cache_guild_info ended
      raised |-> FALSE,       \* an exception left that call
      hist |-> EmptyDict,     \* history: joins counted by that caller per date and hour
      calls |-> << >>,        \* history: the calls issued so far
      first_join |-> FALSE,   \* history: no join event of the member came before
      first_contact |-> FALSE,\* history: the guild had no cache entry when the event came
      analytics |-> "none",   \* send_welcome_message: what analytics' dicts are
      members_result |-> "none",  \* cache_members on the accept path: "ok" / "failed"
      seq |-> IF kind = "none" THEN 0 ELSE nevents + 1,
                              \* history: ordinal of the event among those delivered
      nth |-> 0 ]             \* history: ordinal of this join in the member's streak

\* The rate-limited joins of a user since the last cleanup: how many there were,
\* when the first one was checked, and whether every DM so far was delivered.
NoStreak == [n |-> 0, start |-> NoneT, ok |-> TRUE]

\* ------------------------------------------------- the state after construction
\* pendulum.now("America/Chicago").isoformat(): the wall clock of the zone with
\* its offset from UTC; pendulum.parse reads the instant back from both.
ChicagoOffset == 0 - 6 * TicksPerHour
NoStamp == [set |-> FALSE, wall |-> 0, offset |-> 0]
IsoFormat(t) == [set |-> TRUE, wall |-> t + ChicagoOffset, offset |-> ChicagoOffset]
Parse(s) == s.wall - s.offset

\* The coroutines that call the cache manager.
Tasks == {"t1", "t2", "t3"}

\* The frame of a cache manager call: the operation, the await it is suspended
\* at, the lock it took from the table, and what it did.
NewTask(kind) ==
    [ op |-> kind,            \* "initialize", "close", "access", "cache_all", "delete_guild"
      pc |-> "idle",          \* the await the coroutine is suspended at
      guild |-> "g1",         \* the guild of a cache_all or delete_guild call
      lock |-> 0,             \* the lock _get_guild_lock returned (0: none yet)
      force_refresh |-> FALSE,
      stamp |-> NoStamp,      \* cache_guild_info: the updated_at it is writing
      counted |-> 0,          \* delete_guild: count_documents calls that returned
      was_init |-> FALSE,     \* history: _initialized when the call was made
      stored |-> "none",      \* history: how find_one ended, "read" or "error"
      ran |-> 0,              \* history: caching operations started by cache_all
      result |-> "none" ]     \* "ok", "RuntimeError", "raised"

\* The frame in task slot t: a slot never used holds no call.
TaskOf(t) == IF t \in DOMAIN task THEN task[t] ELSE NewTask("none")

\* asyncio.Lock: a fresh lock.
NewLock == [locked |-> FALSE, waiters |-> << >>]

\* WYR.__init__ (lines 283-286) and DropsStatsCog.__init__ (lines 31-55), over
\* empty collections.
NewCogs ==
    [ wyr_collection |-> FALSE,
      questions |-> EmptyDict,
      leaderboard |-> EmptyDict,
      coro |-> EmptyDict,
      stats_monthly |-> EmptyDict,
      stats_totals |-> EmptyDict,
      op_lock |-> NewLock,
      drop |-> EmptyDict,
      db_failed |-> FALSE ]

CogsNew == cogs = NewCogs

\* GuildCacheManager.__init__, lines 24-32.
ManagerNew ==
    /\ initialized = FALSE
    /\ client = FALSE
    /\ cache_locks = EmptyDict
    /\ locks = << >>
    /\ opened = FALSE
    /\ task = EmptyDict

Init ==
    /\ ManagerNew
    /\ CogsNew
    /\ servers = EmptyDict
    /\ now = 0
    /\ created_at \in [Users -> {0 - a : a \in AgeChoices}]
    /\ in_guild \in [Guilds -> BOOLEAN]
    /\ dm_rate_limits = EmptyDict
    /\ guild_cache = EmptyDict
    /\ frame = [h \in Procs |-> NewFrame("none", "u1", "g1")]
    /\ streak = [u \in Users |-> NoStreak]
    /\ joined = {}
    /\ cleaned_blocked = {}
    /\ nevents = 0
    /\ nticks = 0
    /\ dms_sent = [u \in Users |-> 0]
    /\ join_times = [g \in Guilds |-> << >>]

\* A slot is free when no handler is suspended in it.
Free(h) == frame[h].pc \in {"idle", "done"}
\* No handler is suspended at an await.
Quiet == \A h \in Procs : Free(h)
\* The slot a new handler invocation takes is the first free one: the slots
\* only name the coroutines in flight.
FirstFree(h) == Free(h) /\ (h = "h1" \/ ~Free("h1"))

\* The handler in slot h goes on to await l, having issued the calls cs.
Step(f, l, cs) == [f EXCEPT !.pc = l, !.calls = @ \o cs]

\* The clock advances; every handler is suspended at an await or not running.
Tick ==
    /\ nticks' = nticks + 1
    /\ \E d \in TickSteps : now' = now + d
    /\ UNCHANGED << created_at, in_guild, dm_rate_limits, guild_cache, frame, streak,
                    joined, cleaned_blocked, nevents,
                    observed, cmvars, cogvars >>

\* ------------------------------------------------- handle_member_join
\* on_member_join -> handle_member_join, lines 246-253 up to the await inside
\* update_guild_metrics(guild, "member_join").
JoinStart(h, u, g) ==
    /\ in_guild[g]
    /\ FirstFree(h)
    /\ nevents' = nevents + 1
    /\ frame' = [frame EXCEPT ![h] =
                   [NewFrame("join", u, g) EXCEPT
                      !.pc = "join_flush",
                      !.account_age = Days(now - created_at[u]),
                      !.first_join = u \notin joined,
                      !.first_contact = g \notin DOMAIN guild_cache,
                      !.calls = << "flush" >>]]
    /\ guild_cache' = update_guild_metrics(guild_cache, g, "member_join", now,
                                           Days(now - created_at[u]))
    /\ joined' = joined \cup {u}
    /\ UNCHANGED << now, created_at, in_guild, dm_rate_limits, streak, cleaned_blocked,
                    nticks,
                    dms_sent, cmvars, cogvars >>

\* The streak of user u after a can_send_dm call at time t.
StreakAfterCheck(st, t, young) ==
    IF young
    THEN [st EXCEPT !.n = @ + 1, !.start = IF st.n = 0 THEN t ELSE @]
    ELSE st

\* Lines 259-309 up to the next await, run with guild cache gc after the calls
\* pre of the same step: the age branch, can_send_dm on the reject path, the
\* welcome channel lookup on the accept path.
Gatekeeper(h, gc, pre) ==
    LET f == [frame[h] EXCEPT !.calls = @ \o pre]
        u == f.member
    IN
    /\ guild_cache' = gc
    /\ IF TooNew(f.account_age)
       THEN LET r == can_send_dm(dm_rate_limits, u, now, created_at[u])
                young == Days(now - created_at[u]) < new_account_days
                st == StreakAfterCheck(streak[u], now, young)
                k == IF young /\ st.ok /\ now - st.start < WindowTicks THEN st.n ELSE 0
                f1 == [f EXCEPT !.can_dm = r.allowed, !.reason = r.reason, !.nth = k]
            IN
            /\ dm_rate_limits' = r.limits
            /\ streak' = [streak EXCEPT ![u] = st]
            /\ frame' = [frame EXCEPT ![h] =
                           IF r.allowed
                           THEN Step(f1, "dm_send", << "can_send_dm", "dm" >>)
                           ELSE Step(f1, "sleep1", << "can_send_dm", "sleep" >>)]
       ELSE /\ \E channel \in BOOLEAN :
                frame' = [frame EXCEPT ![h] =
                            IF channel
                            THEN Step(f, "cache_members", << "cache_members" >>)
                            ELSE Step(f, "done", << >>)]
            /\ UNCHANGED << dm_rate_limits, streak >>
    /\ UNCHANGED << now, created_at, in_guild, joined, cleaned_blocked, nevents, nticks,
                    observed, cmvars, cogvars >>

\* cache_guild_info returned or raised (update_guild_metrics catches it); then
\* "if guild.id not in self.guild_cache: await self.initialize_guild_cache(guild)".
JoinFlushed(h) ==
    /\ frame[h].pc = "join_flush"
    /\ IF frame[h].guild \in DOMAIN guild_cache
       THEN Gatekeeper(h, guild_cache, << >>)
       ELSE \E text_channels \in BOOLEAN :
              IF text_channels
              THEN /\ guild_cache' = InitBegin(guild_cache, frame[h].guild)
                   /\ frame' = [frame EXCEPT ![h] =
                                  Step([@ EXCEPT !.ref_ok = TRUE], "join_init",
                                       << "initialize_guild_cache" >>)]
                   /\ UNCHANGED << now, created_at, in_guild, dm_rate_limits, streak,
                                   joined, cleaned_blocked, nevents, nticks,
                    observed, cmvars, cogvars >>
              ELSE Gatekeeper(h, InitFinish(InitBegin(guild_cache, frame[h].guild),
                                            frame[h].guild, now, TRUE),
                              << "initialize_guild_cache" >>)

\* initialize_guild_cache's channel.history scan ended; the handler goes on.
JoinInitDone(h) ==
    /\ frame[h].pc = "join_init"
    /\ Gatekeeper(h, InitFinish(guild_cache, frame[h].guild, now, frame[h].ref_ok), << >>)

\* A member.send whose failure is not caught: the handler ends there.
DmSent_Uncaught(h) ==
    LET f == frame[h]
        u == f.member
    IN
    /\ f.pc = "dm_send"
    /\ \E res \in {"ok", "forbidden", "error"} :
         IF res = "ok"
         THEN /\ dm_rate_limits' = record_dm_sent(dm_rate_limits, u, now)
              /\ guild_cache' = update_guild_metrics(guild_cache, f.guild, "dm_sent", now,
                                                     Days(now - created_at[u]))
              /\ frame' = [frame EXCEPT ![h] =
                             Step([f EXCEPT !.dm_result = IF res = "ok" THEN "ok" ELSE "failed"], "dm_flush",
                                  << "record_dm_sent", "flush" >>)]
              /\ UNCHANGED streak
         ELSE /\ frame' = [frame EXCEPT ![h] =
                             Step([f EXCEPT !.dm_result = IF res = "ok" THEN "ok" ELSE "failed"], "done", << >>)]
              /\ streak' = [streak EXCEPT ![u].ok = FALSE]
              /\ UNCHANGED << dm_rate_limits, guild_cache >>
    /\ UNCHANGED << now, created_at, in_guild, joined, cleaned_blocked, nevents, nticks,
                    join_times, cmvars, cogvars >>

\* A handler that records the send whether or not member.send raised.
DmSent_RecordsFailure(h) ==
    LET f == frame[h]
        u == f.member
    IN
    /\ f.pc = "dm_send"
    /\ \E res \in {"ok", "forbidden", "error"} :
         /\ dm_rate_limits' = record_dm_sent(dm_rate_limits, u, now)
         /\ guild_cache' = update_guild_metrics(guild_cache, f.guild, "dm_sent", now,
                                                Days(now - created_at[u]))
         /\ frame' = [frame EXCEPT ![h] =
                        Step([f EXCEPT !.dm_result = IF res = "ok" THEN "ok" ELSE "failed"],
                             "dm_flush", << "record_dm_sent", "flush" >>)]
         /\ streak' = [streak EXCEPT ![u].ok = (res = "ok") /\ @]
    /\ UNCHANGED << now, created_at, in_guild, joined, cleaned_blocked, nevents, nticks,
                    join_times, cmvars, cogvars >>

\* member.send returned or raised.  On success record_dm_sent runs up to the
\* await inside update_guild_metrics(guild, "dm_sent").  discord.Forbidden and
\* any other Exception are caught by two handlers that only log.
DmSent(h) ==
    LET f == frame[h]
        u == f.member
    IN
    /\ f.pc = "dm_send"
    /\ \E res \in {"ok", "forbidden", "error"} :
         IF res = "ok"
         THEN /\ dm_rate_limits' = record_dm_sent(dm_rate_limits, u, now)
              /\ guild_cache' = update_guild_metrics(guild_cache, f.guild, "dm_sent", now,
                                                     Days(now - created_at[u]))
              /\ frame' = [frame EXCEPT ![h] =
                             Step([f EXCEPT !.dm_result = IF res = "ok" THEN "ok" ELSE "failed"], "dm_flush",
                                  << "record_dm_sent", "flush" >>)]
              /\ UNCHANGED streak
         ELSE /\ frame' = [frame EXCEPT ![h] =
                             Step([f EXCEPT !.dm_result = IF res = "ok" THEN "ok" ELSE "failed"], "sleep1", << "sleep" >>)]
              /\ streak' = [streak EXCEPT ![u].ok = FALSE]
              /\ UNCHANGED << dm_rate_limits, guild_cache >>
    /\ UNCHANGED << now, created_at, in_guild, joined, cleaned_blocked, nevents, nticks,
                    join_times, cmvars, cogvars >>

\* A handler step that changes only its own position and call history.
Advance(h, from, to, cs) ==
    /\ frame[h].pc = from
    /\ frame' = [frame EXCEPT ![h] = Step(@, to, cs)]
    /\ UNCHANGED << now, created_at, in_guild, dm_rate_limits, guild_cache, streak,
                    joined, cleaned_blocked, nevents, nticks,
                    observed, cmvars, cogvars >>

\* record_dm_sent's flush ended: "await asyncio.sleep(1.2)".
DmFlushed(h) == Advance(h, "dm_flush", "sleep1", << "sleep" >>)

\* A kick whose reason takes the account age at the time of the kick.
Slept1_AgeAtKick(h) ==
    /\ frame[h].pc = "sleep1"
    /\ frame' = [frame EXCEPT ![h] =
                   Step([@ EXCEPT !.kick_reason = Days(now - created_at[frame[h].member])],
                        "kick", << "kick" >>)]
    /\ UNCHANGED << now, created_at, in_guild, dm_rate_limits, guild_cache, streak,
                    joined, cleaned_blocked, nevents, nticks,
                    observed, cmvars, cogvars >>

\* The first pacing delay ended: member.kick(reason=f"... ({account_age.days} days old)").
Slept1(h) ==
    /\ frame[h].pc = "sleep1"
    /\ frame' = [frame EXCEPT ![h] =
                   Step([@ EXCEPT !.kick_reason = frame[h].account_age], "kick",
                        << "kick" >>)]
    /\ UNCHANGED << now, created_at, in_guild, dm_rate_limits, guild_cache, streak,
                    joined, cleaned_blocked, nevents, nticks,
                    observed, cmvars, cogvars >>

\* A handler that returns from the except block when member.kick raised.
Kicked_ErrorReturns(h) ==
    LET f == frame[h] IN
    /\ f.pc = "kick"
    /\ \E res \in {"ok", "error"} :
         IF res = "ok"
         THEN /\ guild_cache' = update_guild_metrics(guild_cache, f.guild, "member_kick",
                                   now, Days(now - created_at[f.member]))
              /\ frame' = [frame EXCEPT ![h] =
                             Step([f EXCEPT !.kick_result = res], "kick_flush",
                                  << "flush" >>)]
         ELSE /\ frame' = [frame EXCEPT ![h] =
                             Step([f EXCEPT !.kick_result = res], "done", << >>)]
              /\ UNCHANGED guild_cache
    /\ UNCHANGED << now, created_at, in_guild, dm_rate_limits, streak, joined,
                    cleaned_blocked, nevents, nticks,
                    observed, cmvars, cogvars >>

\* member.kick returned or raised.
Kicked(h) ==
    LET f == frame[h] IN
    /\ f.pc = "kick"
    /\ \E res \in {"ok", "error"} :
         IF res = "ok"
         THEN /\ guild_cache' = update_guild_metrics(guild_cache, f.guild, "member_kick",
                                   now, Days(now - created_at[f.member]))
              /\ frame' = [frame EXCEPT ![h] =
                             Step([f EXCEPT !.kick_result = res], "kick_flush",
                                  << "flush" >>)]
         ELSE /\ frame' = [frame EXCEPT ![h] =
                             Step([f EXCEPT !.kick_result = res], "sleep2", << "sleep" >>)]
              /\ UNCHANGED guild_cache
    /\ UNCHANGED << now, created_at, in_guild, dm_rate_limits, streak, joined,
                    cleaned_blocked, nevents, nticks,
                    observed, cmvars, cogvars >>

\* A flush of the kick's metrics update that never returns.
KickFlushed_Hangs(h) == Advance(h, "kick_flush", "kick_flush", << >>)

\* update_guild_metrics(guild, "member_kick") ended: the second pacing delay.
KickFlushed(h) == Advance(h, "kick_flush", "sleep2", << "sleep" >>)

\* The second pacing delay ended: return.
Slept2(h) == Advance(h, "sleep2", "done", << >>)

\* A handler that gives up the welcome when cache_members raised.
AfterMembers_GivesUp(f, res) ==
    IF res = "ok"
    THEN Step([f EXCEPT !.members_result = res], "sleep_w", << "sleep" >>)
    ELSE Step([f EXCEPT !.members_result = res], "done", << >>)

\* Lines 297-305: cache_members returned, or raised and the except logged it;
\* either way the second try block starts with "await asyncio.sleep(1.2)".
AfterMembers(f, res) == Step([f EXCEPT !.members_result = res], "sleep_w", << "sleep" >>)

\* cache_members returned or raised.
MembersCached(h) ==
    /\ frame[h].pc = "cache_members"
    /\ \E res \in {"ok", "failed"} : frame' = [frame EXCEPT ![h] = AfterMembers(@, res)]
    /\ UNCHANGED << now, created_at, in_guild, dm_rate_limits, guild_cache, streak,
                    joined, cleaned_blocked, nevents, nticks,
                    observed, cmvars, cogvars >>

\* get_guild_analytics: "self.guild_cache.get(guild_id, {})" creates no entry.
\* The result's 'security_metrics' and 'join_patterns' are the entry's own dicts
\* ("cached") when the guild has an entry, fresh empty dicts ("private") when not.
get_guild_analytics(cache, g) == IF g \in DOMAIN cache THEN "cached" ELSE "private"

\* What analytics['join_patterns'] and analytics['security_metrics'] read while
\* they are the cached entry's dicts.
AnalyticsView(h) ==
    [ join_patterns |-> guild_cache[frame[h].guild].join_patterns,
      security_metrics |-> guild_cache[frame[h].guild].security_metrics ]

\* send_welcome_message: get_guild_analytics, then the POST.
SleptW(h) ==
    /\ frame[h].pc = "sleep_w"
    /\ frame' = [frame EXCEPT ![h] =
                   Step([@ EXCEPT !.analytics = get_guild_analytics(guild_cache, frame[h].guild)],
                        "welcome", << "welcome" >>)]
    /\ UNCHANGED << now, created_at, in_guild, dm_rate_limits, guild_cache, streak,
                    joined, cleaned_blocked, nevents, nticks,
                    observed, cmvars, cogvars >>

\* The POST returned or raised; analytics goes out of scope.
Welcomed(h) ==
    /\ frame[h].pc = "welcome"
    /\ frame' = [frame EXCEPT ![h] = Step([@ EXCEPT !.analytics = "none"], "done", << >>)]
    /\ UNCHANGED << now, created_at, in_guild, dm_rate_limits, guild_cache, streak,
                    joined, cleaned_blocked, nevents, nticks,
                    observed, cmvars, cogvars >>

\* ------------------------------------------------- handle_member_remove
\* on_member_remove -> handle_member_remove up to the await inside
\* update_guild_metrics(guild, "member_remove").
RemoveStart(h, u, g) ==
    /\ in_guild[g]
    /\ FirstFree(h)
    /\ nevents' = nevents + 1
    /\ frame' = [frame EXCEPT ![h] =
                   Step(NewFrame("remove", u, g), "rm_flush", << "flush" >>)]
    /\ guild_cache' = update_guild_metrics(guild_cache, g, "member_remove", now,
                                           Days(now - created_at[u]))
    /\ UNCHANGED << now, created_at, in_guild, dm_rate_limits, streak, joined,
                    cleaned_blocked, nticks,
                    observed, cmvars, cogvars >>

\* The flush ended: the rate-limit entry is deleted, then "await cache_members".
RemoveFlushed(h) ==
    LET u == frame[h].member IN
    /\ frame[h].pc = "rm_flush"
    /\ dm_rate_limits' = cleanup(dm_rate_limits, u)
    /\ cleaned_blocked' =
         IF u \in DOMAIN dm_rate_limits /\ IsBlocked(dm_rate_limits[u], now)
         THEN cleaned_blocked \cup {u} ELSE cleaned_blocked
    /\ streak' = [streak EXCEPT ![u] = NoStreak]
    /\ frame' = [frame EXCEPT ![h] = Step(@, "rm_members", << "cleanup", "cache_members" >>)]
    /\ UNCHANGED << now, created_at, in_guild, guild_cache, joined, nevents, nticks,
                    observed, cmvars, cogvars >>

\* cache_members returned or raised: return.
RemoveDone(h) == Advance(h, "rm_members", "done", << >>)

\* ------------------------------------------------- guild lifecycle
\* on_guild_join: initialize_guild_cache(guild).
on_guild_join(h, g) ==
    /\ ~in_guild[g]
    /\ FirstFree(h)
    /\ nevents' = nevents + 1
    /\ in_guild' = [in_guild EXCEPT ![g] = TRUE]
    /\ \E text_channels \in BOOLEAN :
         LET f == Step(NewFrame("guild_join", frame[h].member, g), "gj_init",
                       << "initialize_guild_cache" >>)
         IN
         IF text_channels
         THEN /\ guild_cache' = InitBegin(guild_cache, g)
              /\ frame' = [frame EXCEPT ![h] = [f EXCEPT !.ref_ok = TRUE]]
         ELSE /\ guild_cache' = InitFinish(InitBegin(guild_cache, g), g, now, TRUE)
              /\ frame' = [frame EXCEPT ![h] = [f EXCEPT !.pc = "done"]]
    /\ UNCHANGED << now, created_at, dm_rate_limits, streak, joined, cleaned_blocked,
                    nticks,
                    observed, cmvars, cogvars >>

\* initialize_guild_cache's channel.history scan ended: on_guild_join returns.
GuildJoinInitDone(h) ==
    /\ frame[h].pc = "gj_init"
    /\ guild_cache' = InitFinish(guild_cache, frame[h].guild, now, frame[h].ref_ok)
    /\ frame' = [frame EXCEPT ![h] = Step(@, "done", << >>)]
    /\ UNCHANGED << now, created_at, in_guild, dm_rate_limits, streak, joined,
                    cleaned_blocked, nevents, nticks,
                    observed, cmvars, cogvars >>

\* on_guild_remove: "if guild.id in guild_handler.guild_cache: del ...".  It holds
\* no await.  An initialize_guild_cache suspended on this guild keeps its
\* cache_data, and a send_welcome_message its analytics, now dicts the cache no
\* longer holds.
on_guild_remove(g) ==
    /\ in_guild[g]
    /\ nevents' = nevents + 1
    /\ in_guild' = [in_guild EXCEPT ![g] = FALSE]
    /\ guild_cache' = IF g \in DOMAIN guild_cache THEN Del(guild_cache, g) ELSE guild_cache
    /\ frame' = [h \in Procs |->
                   IF frame[h].guild = g
                   THEN [frame[h] EXCEPT !.ref_ok = FALSE,
                                         !.analytics = IF @ = "cached" THEN "private" ELSE @]
                   ELSE frame[h]]
    /\ UNCHANGED << now, created_at, dm_rate_limits, streak, joined, cleaned_blocked,
                    nticks,
                    observed, cmvars, cogvars >>

\* on_guild_role_update / on_guild_role_create -> handle_guild_role_update:
\* "guild_data = self.guild_cache[after.guild.id]" creates the entry; the role
\* distribution it stores and the cache_roles it awaits change nothing modelled.
handle_guild_role_update(g) ==
    /\ in_guild[g]
    /\ nevents' = nevents + 1
    /\ guild_cache' = Put(guild_cache, g, CacheOf(guild_cache, g))
    /\ UNCHANGED << now, created_at, in_guild, dm_rate_limits, frame, streak, joined,
                    cleaned_blocked, nticks,
                    observed, cmvars, cogvars >>

\* on_voice_state_update: update_guild_metrics(guild, "voice_state_change").
on_voice_state_update(g) ==
    /\ in_guild[g]
    /\ nevents' = nevents + 1
    /\ guild_cache' = update_guild_metrics(guild_cache, g, "voice_state_change", now, 0)
    /\ UNCHANGED << now, created_at, in_guild, dm_rate_limits, frame, streak, joined,
                    cleaned_blocked, nticks,
                    observed, cmvars, cogvars >>

\* ------------------------------------------------- update_guild_metrics alone
\* The event types update_guild_metrics is called with: the three it branches
\* on, on_voice_state_update's and record_dm_sent's.
EventTypes == {"member_join", "member_remove", "member_kick", "voice_state_change",
               "dm_sent"}

\* The date and hour of time t, as one number.
DateHourOf(t) == t \div TicksPerHour

\* A caller awaits update_guild_metrics(guild, event_type, member=u): lines
\* 123-160, the in-memory change and the call of cache_guild_info.
MetricsCall(h, u, g, et) ==
    /\ Free(h)
    /\ nevents' = nevents + 1
    /\ guild_cache' = update_guild_metrics(guild_cache, g, et, now,
                                           Days(now - created_at[u]))
    /\ frame' = [frame EXCEPT ![h] =
                   [NewFrame("metrics", u, g) EXCEPT
                      !.pc = "um_flush",
                      !.event_type = et,
                      !.calls = << "flush" >>,
                      !.hist = IF et = "member_join"
                               THEN Bump(frame[h].hist, DateHourOf(now))
                               ELSE frame[h].hist]]
    /\ UNCHANGED << now, created_at, in_guild, dm_rate_limits, streak, joined,
                    cleaned_blocked, nticks,
                    observed, cmvars, cogvars >>

\* A cache_guild_info failure that is not caught in update_guild_metrics.
FlushReturn_Propagates(f, outcome) ==
    [f EXCEPT !.pc = "done", !.flush_result = outcome, !.raised = (outcome = "failed")]

\* Lines 160-163: cache_guild_info returned, or raised (it re-raises what
\* servers.update_one raised) into "except Exception", which logs.
FlushReturn(f, outcome) == [f EXCEPT !.pc = "done", !.flush_result = outcome]

\* The flush of a direct call ended and update_guild_metrics returns.
MetricsReturn(h) ==
    /\ frame[h].pc = "um_flush"
    /\ \E outcome \in {"ok", "failed"} :
          frame' = [frame EXCEPT ![h] = FlushReturn(@, outcome)]
    /\ UNCHANGED << now, created_at, in_guild, dm_rate_limits, guild_cache, streak,
                    joined, cleaned_blocked, nevents, nticks,
                    observed, cmvars, cogvars >>

\* ------------------------------------------------- specifications
\* A member event is delivered and its handler runs up to its first await.
DeliverMember(h) ==
    \/ \E u \in Users, g \in Guilds : JoinStart(h, u, g) /\ UNCHANGED join_times
    \/ \E u \in Users, g \in Guilds : RemoveStart(h, u, g)

\* A guild event is delivered and its handler runs up to its first await.
DeliverGuild ==
    \/ \E h \in Procs, g \in Guilds : on_guild_join(h, g)
    \/ \E g \in Guilds : on_guild_remove(g)
    \/ \E g \in Guilds : handle_guild_role_update(g)
    \/ \E g \in Guilds : on_voice_state_update(g)

\* A member-event handler resumes from the await it is suspended at.
ResumeMember(h) ==
    \/ JoinFlushed(h)
    \/ DmSent(h) /\ UNCHANGED dms_sent
    \/ DmFlushed(h)
    \/ Slept1(h)
    \/ Kicked(h)
    \/ KickFlushed(h)
    \/ Slept2(h)
    \/ MembersCached(h)
    \/ SleptW(h)
    \/ Welcomed(h)
    \/ RemoveFlushed(h)
    \/ RemoveDone(h)

\* An initialize_guild_cache resumes from its await.
ResumeInit(h) ==
    \/ JoinInitDone(h)
    \/ GuildJoinInitDone(h)

\* Every event, the handlers interleaved in any way at their awaits.
Next ==
    \/ nticks < MaxTicks /\ Tick
    \/ nevents < MaxEvents /\ \E h \in Procs : DeliverMember(h)
    \/ nevents < MaxEvents /\ DeliverGuild
    \/ \E h \in Procs : ResumeMember(h)
    \/ \E h \in Procs : ResumeInit(h)

Spec == Init /\ [][Next]_vars

\* Member events handled one at a time: a join or remove event is delivered
\* only when no handler is suspended, and the bot stays in the guild.
NextSeq ==
    \/ nticks < MaxSeqTicks /\ Tick
    \/ nevents < MaxSeqEvents /\ Quiet /\ DeliverMember("h1")
    \/ ResumeMember("h1")

SeqSpec == Init /\ [][NextSeq]_vars

\* update_guild_metrics called directly, one call at a time, with every event
\* type, as the clock advances.
NextMetrics ==
    \/ nticks < MaxCallTicks /\ Tick
    \/ nevents < MaxCalls /\ \E u \in Users, g \in Guilds, et \in EventTypes :
                                MetricsCall("h1", u, g, et)
    \/ MetricsReturn("h1")

MetricsSpec == Init /\ [][NextMetrics]_vars

\* Every event, the handlers interleaved in any way, where every external call
\* a handler awaits (flush, send, kick, sleep, cache refresh, POST, channel
\* history) eventually returns or raises: a suspended handler is resumed.
NextLive ==
    \/ nevents < MaxLiveEvents /\ \E h \in Procs : DeliverMember(h)
    \/ nevents < MaxLiveEvents /\ DeliverGuild
    \/ \E h \in Procs : ResumeMember(h)
    \/ \E h \in Procs : ResumeInit(h)

LiveSpec ==
    /\ Init /\ [][NextLive]_vars
    /\ \A h \in Procs : WF_vars(ResumeMember(h)) /\ WF_vars(ResumeInit(h))

\* dms_sent after slot h's step: a member.send that returned (the handler goes
\* on to record_dm_sent's flush) is one more DM delivered to the member.
CountDm(h) ==
    dms_sent' = IF frame[h].pc = "dm_send" /\ frame'[h].pc = "dm_flush"
                THEN [dms_sent EXCEPT ![frame[h].member] = @ + 1]
                ELSE dms_sent

\* join_times after a join event of guild g was delivered.
CountJoin(g) == join_times' = [join_times EXCEPT ![g] = Append(@, now)]

\* A join handler resumes from the await it is suspended at.
ResumeJoin(h) ==
    \/ JoinFlushed(h)
    \/ DmSent(h) /\ CountDm(h)
    \/ DmFlushed(h)
    \/ Slept1(h)
    \/ Kicked(h)
    \/ KickFlushed(h)
    \/ Slept2(h)
    \/ MembersCached(h)
    \/ SleptW(h)
    \/ Welcomed(h)

\* Join events only, their handlers interleaved in any way at their awaits,
\* within one rate-limit window: the clock stands still and nobody leaves.
NextRace ==
    \/ nevents < MaxRaceJoins /\ \E h \in Procs, u \in Users, g \in Guilds :
                                    JoinStart(h, u, g) /\ UNCHANGED join_times
    \/ \E h \in Procs : ResumeJoin(h)

RaceSpec == Init /\ [][NextRace]_vars

\* The last handler kicked its member: Discord delivers the member-remove event
\* of the kicked user before the user can join again.
KickedOut(h) == frame[h].handler = "join" /\ frame[h].kick_result = "ok"

\* Kick-and-rejoin cycles within one hour, the events handled one at a time: a
\* successful kick is followed by the member-remove event of the kicked user,
\* and then the user may join again.
NextRejoin ==
    \/ /\ nevents < MaxRejoinEvents /\ Quiet /\ ~KickedOut("h1")
       /\ \E u \in Users, g \in Guilds : JoinStart("h1", u, g) /\ UNCHANGED join_times
    \/ /\ nevents < MaxRejoinEvents /\ Quiet /\ KickedOut("h1")
       /\ RemoveStart("h1", frame["h1"].member, frame["h1"].guild)
    \/ ResumeJoin("h1")
    \/ RemoveFlushed("h1")
    \/ RemoveDone("h1")

RejoinSpec == Init /\ [][NextRejoin]_vars

\* Join events only, handled one at a time within one hour: no member leaves,
\* so no rate-limit entry is cleaned up.
NextJoins ==
    \/ /\ nevents < MaxJoins /\ Quiet
       /\ \E u \in Users, g \in Guilds : JoinStart("h1", u, g) /\ UNCHANGED join_times
    \/ ResumeJoin("h1")

JoinsSpec == Init /\ [][NextJoins]_vars

\* Join events only, the handlers interleaved, as the clock advances; the time
\* of every join whose handler ran its metrics update is kept.
NextCount ==
    \/ nticks < MaxCountTicks /\ Tick
    \/ /\ nevents < MaxCountJoins
       /\ \E h \in Procs, u \in Users, g \in Guilds : JoinStart(h, u, g) /\ CountJoin(g)
    \/ \E h \in Procs : ResumeJoin(h)

\* The member is an account the gatekeeper rejects or one it accepts.
CountInit ==
    /\ Init
    /\ created_at \in [Users -> {0 - 10 * TicksPerDay, 0 - 100 * TicksPerDay}]

CountSpec == CountInit /\ [][NextCount]_vars

\* ------------------------------------------------- the cache manager
\* What the event handlers hold: no cache manager call changes it.
handler_state == << created_at, in_guild, dm_rate_limits, guild_cache, frame, streak,
                    joined, cleaned_blocked, observed >>

\* A task slot is free when no cache manager call is suspended in it; a new
\* call takes the first free slot.
FreeTask(t) == TaskOf(t).pc \in {"idle", "done"}
Earlier(t) == CASE t = "t1" -> {} [] t = "t2" -> {"t1"} [] OTHER -> {"t1", "t2"}
FirstFreeTask(t) == FreeTask(t) /\ \A s \in Earlier(t) : ~FreeTask(s)

\* A call of kind op for guild g begins in slot t.
Call(op) == [NewTask(op) EXCEPT !.was_init = initialized]

\* The call returned or raised.
Return(f, res) == [f EXCEPT !.pc = "done", !.result = res]

\* asyncio.Lock: acquire() returns at once when the lock is free and nobody
\* waits, else the caller queues; release() frees the lock and wakes the first
\* waiter, which takes the lock when it runs.
CanAcquire(l) == ~l.locked /\ l.waiters = << >>
Acquire(ls, id) == [ls EXCEPT ![id].locked = TRUE]
Enqueue(ls, id, t) == [ls EXCEPT ![id].waiters = Append(@, t)]
Release(ls, id) == [ls EXCEPT ![id].locked = FALSE]

\* _get_guild_lock(guild_id): the lock table and the locks after the call, and
\* the lock returned.
get_guild_lock(g) ==
    IF g \in DOMAIN cache_locks
    THEN [table |-> cache_locks, all |-> locks, id |-> cache_locks[g]]
    ELSE [table |-> Put(cache_locks, g, Len(locks) + 1),
          all |-> Append(locks, NewLock), id |-> Len(locks) + 1]

\* A freshness check that refreshes only records more than an hour old.
should_refresh_cache_Strict(res, store, g, t) ==
    IF res = "error" THEN TRUE
    ELSE IF g \notin DOMAIN store \/ ~store[g].set THEN TRUE
    ELSE LET d == t - Parse(store[g])
             diff == IF d < 0 THEN 0 - d ELSE d
         IN diff > TicksPerHour

\* _should_refresh_cache, given how find_one ended and the record store it read.
should_refresh_cache(res, store, g, t) ==
    IF res = "error" THEN TRUE
    ELSE IF g \notin DOMAIN store \/ ~store[g].set THEN TRUE
    ELSE LET d == t - Parse(store[g])
             diff == IF d < 0 THEN 0 - d ELSE d
         IN diff \div TicksPerHour >= 1

\* cache_all starts its four caching operations with asyncio.gather;
\* cache_guild_info stamps its record before it reaches self.servers.
StartGather(f) ==
    [f EXCEPT !.pc = "gather", !.ran = 4,
              !.stamp = IF initialized THEN IsoFormat(now) ELSE NoStamp]

\* delete_guild reaches self.servers for the next count_documents or for the
\* delete_many calls: the collection property raises when the manager is closed.
NextAccess(f) ==
    IF ~initialized THEN Return(f, "RuntimeError")
    ELSE IF f.counted < 4 THEN [f EXCEPT !.pc = "count"]
    ELSE [f EXCEPT !.pc = "delete"]

\* The task holds its lock: the body of "async with" up to its first await.
EnterSection(f) ==
    IF f.op = "cache_all"
    THEN IF f.force_refresh THEN StartGather(f)
         ELSE IF ~initialized THEN StartGather([f EXCEPT !.stored = "error"])
         ELSE [f EXCEPT !.pc = "find"]
    ELSE NextAccess(f)

\* The locks after the task, holding lock id, ran up to frame f2: "async with"
\* releases the lock when the body returned or raised.
AfterBody(ls, id, f2) == IF f2.pc = "done" THEN Release(ls, id) ELSE ls

\* cache_all(guild, force_refresh) or delete_guild(guild_id) is called: lines
\* 103-105 and 427-429, up to the first await.
LockedCallStart(t, op, g, force) ==
    /\ FirstFreeTask(t)
    /\ nevents' = nevents + 1
    /\ IF ~initialized
       THEN /\ task' = Put(task, t, Return(Call(op), "RuntimeError"))
            /\ UNCHANGED << cache_locks, locks >>
       ELSE LET r == get_guild_lock(g)
                f == [Call(op) EXCEPT !.guild = g, !.force_refresh = force, !.lock = r.id]
            IN /\ cache_locks' = r.table
               /\ IF CanAcquire(r.all[r.id])
                  THEN LET f2 == EnterSection(f) IN
                       /\ task' = Put(task, t, f2)
                       /\ locks' = AfterBody(Acquire(r.all, r.id), r.id, f2)
                  ELSE /\ task' = Put(task, t, [f EXCEPT !.pc = "wait"])
                       /\ locks' = Enqueue(r.all, r.id, t)
    /\ UNCHANGED << now, nticks, handler_state, cogvars, opened, initialized, client, servers >>

CacheAllStart(t) ==
    \E g \in Guilds, force \in BOOLEAN : LockedCallStart(t, "cache_all", g, force)

DeleteStart(t) == \E g \in Guilds : LockedCallStart(t, "delete_guild", g, FALSE)

\* The first waiter of a released lock runs and takes it.
LockAcquired(t) ==
    LET f == TaskOf(t)
        id == f.lock
    IN
    /\ f.pc = "wait"
    /\ ~locks[id].locked
    /\ Head(locks[id].waiters) = t
    /\ LET f2 == EnterSection(f)
           ls == [locks EXCEPT ![id].locked = TRUE, ![id].waiters = Tail(@)]
       IN /\ task' = Put(task, t, f2)
          /\ locks' = AfterBody(ls, id, f2)
    /\ UNCHANGED << now, nticks, nevents, handler_state, cogvars, opened, initialized, client,
                    cache_locks, servers >>

\* find_one returned or raised: lines 137-146, then cache_all's lines 110-121.
FoundOne(t) ==
    LET f == TaskOf(t) IN
    /\ f.pc = "find"
    /\ \E res \in {"read", "error"} :
         LET f1 == [f EXCEPT !.stored = res]
             f2 == IF should_refresh_cache(res, servers, f.guild, now)
                   THEN StartGather(f1)
                   ELSE Return(f1, "ok")
         IN /\ task' = Put(task, t, f2)
            /\ locks' = AfterBody(locks, f.lock, f2)
    /\ UNCHANGED << now, nticks, nevents, handler_state, cogvars, opened, initialized, client,
                    cache_locks, servers >>

\* The gather of the four caching operations returned (return_exceptions=True):
\* cache_guild_info has upserted its record or raised.
Gathered(t) ==
    LET f == TaskOf(t) IN
    /\ f.pc = "gather"
    /\ \E written \in BOOLEAN :
         servers' = IF written /\ f.stamp.set THEN Put(servers, f.guild, f.stamp)
                    ELSE servers
    /\ task' = Put(task, t, Return(f, "ok"))
    /\ locks' = Release(locks, f.lock)
    /\ UNCHANGED << now, nticks, nevents, handler_state, cogvars, opened, initialized, client,
                    cache_locks >>

\* A count_documents of delete_guild returned or raised (lines 434-437).
Counted(t) ==
    LET f == TaskOf(t) IN
    /\ f.pc = "count"
    /\ \E res \in {"ok", "raised"} :
         LET f2 == IF res = "ok" THEN NextAccess([f EXCEPT !.counted = @ + 1])
                   ELSE Return(f, "raised")
         IN /\ task' = Put(task, t, f2)
            /\ locks' = AfterBody(locks, f.lock, f2)
    /\ UNCHANGED << now, nticks, nevents, handler_state, cogvars, opened, initialized, client,
                    cache_locks, servers >>

\* The gather of the four delete_many returned; lines 454-456 drop the guild's
\* lock from the table, and "async with" releases the lock the task holds.
Deleted(t) ==
    LET f == TaskOf(t) IN
    /\ f.pc = "delete"
    /\ \E gone \in BOOLEAN :
         servers' = IF gone /\ f.guild \in DOMAIN servers THEN Del(servers, f.guild)
                    ELSE servers
    /\ cache_locks' = IF f.guild \in DOMAIN cache_locks THEN Del(cache_locks, f.guild)
                      ELSE cache_locks
    /\ task' = Put(task, t, Return(f, "ok"))
    /\ locks' = Release(locks, f.lock)
    /\ UNCHANGED << now, nticks, nevents, handler_state, cogvars, opened, initialized, client >>

\* initialize() is called: lines 36-50, up to the ping.
InitializeStart(t) ==
    /\ FirstFreeTask(t)
    /\ nevents' = nevents + 1
    /\ IF initialized
       THEN /\ task' = Put(task, t, Return(Call("initialize"), "ok"))
            /\ UNCHANGED client
       ELSE /\ task' = Put(task, t, [Call("initialize") EXCEPT !.pc = "ping"])
            /\ client' = TRUE
    /\ opened' = (initialized \/ opened)
    /\ UNCHANGED << now, nticks, handler_state, cogvars, initialized, cache_locks, locks, servers >>

\* An initialize that sets _initialized before it tests the connection.
Pinged_SetBeforePing(t) ==
    LET f == TaskOf(t) IN
    /\ f.pc = "ping"
    /\ \E res \in {"ok", "raised"} :
         /\ task' = Put(task, t, Return(f, res))
         /\ initialized' = TRUE
         /\ opened' = (res = "ok" \/ opened)
    /\ UNCHANGED << now, nticks, nevents, handler_state, cogvars, client, cache_locks, locks,
                    servers >>

\* The ping returned or raised: lines 52-57.
Pinged(t) ==
    LET f == TaskOf(t) IN
    /\ f.pc = "ping"
    /\ \E res \in {"ok", "raised"} :
         /\ task' = Put(task, t, Return(f, res))
         /\ initialized' = IF res = "ok" THEN TRUE ELSE initialized
         /\ opened' = (res = "ok" \/ opened)
    /\ UNCHANGED << now, nticks, nevents, handler_state, cogvars, client, cache_locks, locks,
                    servers >>

\* close(): lines 61-64, which hold no await.
Close(t) ==
    /\ FirstFreeTask(t)
    /\ nevents' = nevents + 1
    /\ task' = Put(task, t, Return(Call("close"), "ok"))
    /\ initialized' = IF client THEN FALSE ELSE initialized
    /\ opened' = FALSE
    /\ UNCHANGED << now, nticks, handler_state, cogvars, client, cache_locks, locks, servers >>

\* One of the collection properties is read: lines 71-93.
Access(t) ==
    /\ FirstFreeTask(t)
    /\ nevents' = nevents + 1
    /\ task' = Put(task, t, Return(Call("access"),
                                    IF initialized THEN "ok" ELSE "RuntimeError"))
    /\ UNCHANGED << now, nticks, handler_state, cogvars, opened, initialized, client, cache_locks, locks,
                    servers >>

\* The records the guilds collection may hold when the bot starts: none, one
\* without updated_at, one stamped at time 0.
StoredChoices ==
    {EmptyDict} \cup {[g \in Guilds |-> s] : s \in {NoStamp, IsoFormat(0)}}

\* A manager just constructed, over any of those stores; no member event comes.
CacheInit ==
    /\ ManagerNew
    /\ CogsNew
    /\ servers \in StoredChoices
    /\ now = 0
    /\ created_at = [u \in Users |-> 0 - 10 * TicksPerDay]
    /\ in_guild = [g \in Guilds |-> TRUE]
    /\ dm_rate_limits = EmptyDict
    /\ guild_cache = EmptyDict
    /\ frame = [h \in Procs |-> NewFrame("none", "u1", "g1")]
    /\ streak = [u \in Users |-> NoStreak]
    /\ joined = {}
    /\ cleaned_blocked = {}
    /\ nevents = 0
    /\ nticks = 0
    /\ dms_sent = [u \in Users |-> 0]
    /\ join_times = [g \in Guilds |-> << >>]

\* The cache manager's calls, interleaved in any way at their awaits, as the
\* clock advances.
NextCache ==
    \/ nticks < MaxCacheTicks /\ Tick
    \/ nevents < MaxCacheCalls /\ \E t \in Tasks : InitializeStart(t)
    \/ nevents < MaxCacheCalls /\ \E t \in Tasks : Close(t)
    \/ nevents < MaxCacheCalls /\ \E t \in Tasks : Access(t)
    \/ nevents < MaxCacheCalls /\ \E t \in Tasks : CacheAllStart(t)
    \/ nevents < MaxCacheCalls /\ \E t \in Tasks : DeleteStart(t)
    \/ \E t \in Tasks : LockAcquired(t)
    \/ \E t \in Tasks : FoundOne(t)
    \/ \E t \in Tasks : Gathered(t)
    \/ \E t \in Tasks : Counted(t)
    \/ \E t \in Tasks : Deleted(t)
    \/ \E t \in Tasks : Pinged(t)

CacheSpec == CacheInit /\ [][NextCache]_vars

\* initialize, cache_all and delete_guild calls interleaved at their awaits, the
\* manager never closed.
NextLock ==
    \/ nevents < MaxLockCalls /\ ~initialized /\ \E t \in Tasks : InitializeStart(t)
    \/ nevents < MaxLockCalls /\ \E t \in Tasks : CacheAllStart(t)
    \/ nevents < MaxLockCalls /\ \E t \in Tasks : DeleteStart(t)
    \/ \E t \in Tasks : LockAcquired(t)
    \/ \E t \in Tasks : FoundOne(t)
    \/ \E t \in Tasks : Gathered(t)
    \/ \E t \in Tasks : Counted(t)
    \/ \E t \in Tasks : Deleted(t)
    \/ \E t \in Tasks : Pinged(t)

LockSpec == CacheInit /\ [][NextLock]_vars

\* Every call of the cache manager, interleaved at the awaits, the clock
\* standing still.
NextLife ==
    \/ nevents < MaxLifeCalls /\ \E t \in Tasks : InitializeStart(t)
    \/ nevents < MaxLifeCalls /\ \E t \in Tasks : Close(t)
    \/ nevents < MaxLifeCalls /\ \E t \in Tasks : Access(t)
    \/ nevents < MaxLifeCalls /\ \E t \in Tasks : CacheAllStart(t)
    \/ nevents < MaxLifeCalls /\ \E t \in Tasks : DeleteStart(t)
    \/ \E t \in Tasks : LockAcquired(t)
    \/ \E t \in Tasks : FoundOne(t)
    \/ \E t \in Tasks : Gathered(t)
    \/ \E t \in Tasks : Counted(t)
    \/ \E t \in Tasks : Deleted(t)
    \/ \E t \in Tasks : Pinged(t)

LifeSpec == CacheInit /\ [][NextLife]_vars

\* ------------------------------------------------- the Would-You-Rather cog
\* The slots of the cog's coroutines, the questions in the database (all tagged
\* with the one category posted), the users that vote, the two options.
Slots == {"c1", "c2", "c3"}
Questions == {"q1", "q2"}
Voters == {"v1", "v2"}
Options == {"option1", "option2"}
\* The hour of the daily post, Chicago time.
TARGET_HOUR == 6

\* A question document that nobody voted on and that was never posted.
NewQuestion ==
    [ votes |-> EmptyDict,
      vote_counts |-> [o \in Options |-> 0],
      used_count |-> 0 ]

\* The frame of a coroutine of the cog.
NewCoro(kind) ==
    [ op |-> kind,            \* "init", "sched", "post", "vote"
      pc |-> "idle",          \* the await the coroutine is suspended at
      question |-> "none",    \* record_vote's question_id; the question picked for a post
      user |-> "none",        \* record_vote's user_id
      option |-> "none",      \* record_vote's option
      previous |-> "none",    \* record_vote's previous_vote ("none": None)
      until |-> 0,            \* sleep_until's argument
      run |-> 0,              \* history: ordinal of the scheduler run
      posted |-> FALSE ]      \* history: the run's post attempt is over

\* The frame in slot c: a slot never used holds no coroutine.
CoroOf(c) == IF c \in DOMAIN coro THEN coro[c] ELSE NewCoro("none")
FreeSlot(c) == CoroOf(c).pc \in {"idle", "done"}
EarlierSlots(c) == CASE c = "c1" -> {} [] c = "c2" -> {"c1"} [] OTHER -> {"c1", "c2"}
FirstFreeSlot(c) == FreeSlot(c) /\ \A d \in EarlierSlots(c) : ~FreeSlot(d)

\* The coroutine returned: its frame is gone.
Done(f) == [NewCoro(f.op) EXCEPT !.pc = "done"]

\* The coroutine in slot c goes on as frame f, the collections as they are.
SetCoro(c, f) == cogs' = [cogs EXCEPT !.coro = Put(coro, c, f)]

\* What no coroutine of the cog changes.
outside_wyr == << created_at, in_guild, dm_rate_limits, guild_cache, frame, streak,
                 joined, cleaned_blocked, observed, cmvars >>

\* get_next_6am_chicago, lines 334-344: time 0 is a Chicago midnight.
Next6am(t) ==
    LET today_6am == (t \div TicksPerDay) * TicksPerDay + TARGET_HOUR * TicksPerHour
    IN IF t >= today_6am THEN today_6am + TicksPerDay ELSE today_6am

\* schedule_next_post up to its sleep_until (lines 361-374), as run number n.
SchedSleep(f, n) ==
    [f EXCEPT !.op = "sched", !.pc = "sleep", !.until = Next6am(now), !.run = n,
              !.posted = FALSE, !.question = "none"]

\* A scheduler run that ends without creating its successor.
NextRun_None(f) == [NewCoro("sched") EXCEPT !.pc = "done", !.run = f.run]

\* The task schedule_next_post creates at its end (lines 380, 386): the next
\* scheduler run, not yet started.
NextRun(f) == [NewCoro("sched") EXCEPT !.pc = "start", !.run = f.run + 1]

\* schedule_next_post from its start to its first suspension, as run number n:
\* asleep until the next 6 AM (line 374) or, when scheduling raised, asleep for
\* one hour in the fallback (line 385).
SchedBegin(f, n, res) ==
    IF res = "raised"
    THEN [NewCoro("sched") EXCEPT !.pc = "retry_sleep", !.until = now + TicksPerHour,
                                  !.run = n]
    ELSE SchedSleep(f, n)

\* WYR.__init__ creates the initialize_database task, which attaches the
\* collections and awaits the first connectivity test (lines 288, 310-320).
InitDbStart(c) ==
    /\ coro = EmptyDict /\ ~wyr_collection
    /\ c = "c1"
    /\ cogs' = [cogs EXCEPT !.wyr_collection = TRUE,
                            !.coro = Put(coro, c, [NewCoro("init") EXCEPT !.pc = "ping1"])]
    /\ UNCHANGED << now, nevents, nticks, outside_wyr >>

\* A connectivity test returned or raised (lines 320-328); after the second one
\* initialize_database awaits schedule_next_post, the first scheduler run.
InitPinged(c) ==
    LET f == CoroOf(c) IN
    /\ f.op = "init" /\ f.pc \in {"ping1", "ping2"}
    /\ \E res \in {"ok", "raised"}, sched \in {"ok", "raised"} :
         SetCoro(c,
                     IF res = "raised" THEN Done(f)
                     ELSE IF f.pc = "ping1" THEN [f EXCEPT !.pc = "ping2"]
                     ELSE SchedBegin(f, 1, sched))
    /\ UNCHANGED << now, nevents, nticks, outside_wyr >>

\* A vote button is pressed: handle_vote calls record_vote (lines 571-580).
VoteStart(c, q, u, o) ==
    /\ FirstFreeSlot(c)
    /\ nevents' = nevents + 1
    /\ SetCoro(c,
                   LET f == [NewCoro("vote") EXCEPT !.question = q, !.user = u, !.option = o]
                   IN IF wyr_collection THEN [f EXCEPT !.pc = "find"]
                      ELSE [f EXCEPT !.pc = "reply"])
    /\ UNCHANGED << now, nticks, outside_wyr >>

\* record_vote's find_one returned or raised (lines 580-601): the update is
\* built from the votes read.
VoteFound(c) ==
    LET f == CoroOf(c) IN
    /\ f.op = "vote" /\ f.pc = "find"
    /\ \E res \in {"ok", "raised"} :
         SetCoro(c,
                     IF res = "raised" \/ f.question \notin DOMAIN questions
                     THEN [f EXCEPT !.pc = "reply"]
                     ELSE LET votes == questions[f.question].votes IN
                          [f EXCEPT !.pc = "update",
                                    !.previous = IF f.user \in DOMAIN votes
                                                 THEN votes[f.user] ELSE "none"])
    /\ UNCHANGED << now, nevents, nticks, outside_wyr >>

\* An update that forgets to take a changed vote from the old option.
ApplyVote_NoDecrement(doc, u, o, previous) ==
    [doc EXCEPT !.votes = Put(@, u, o),
                !.vote_counts = IF previous # o THEN [@ EXCEPT ![o] = @ + 1] ELSE @]

\* record_vote's update_query applied to a question document: "$set" of the
\* user's vote, and "$inc" of vote_counts by what previous_vote was.
ApplyVote(doc, u, o, previous) ==
    LET counts == doc.vote_counts IN
    [doc EXCEPT !.votes = Put(@, u, o),
                !.vote_counts =
                    IF previous = "none" THEN [counts EXCEPT ![o] = @ + 1]
                    ELSE IF previous # o
                         THEN [counts EXCEPT ![previous] = @ - 1, ![o] = @ + 1]
                         ELSE counts]

\* record_vote's update_one returned or raised (lines 601-605); for a new vote
\* update_user_leaderboard follows, up to its find_one (lines 432-441).
VoteUpdated(c) ==
    LET f == CoroOf(c) IN
    /\ f.op = "vote" /\ f.pc = "update"
    /\ \E res \in {"ok", "raised"} :
         IF res = "raised"
         THEN SetCoro(c, [f EXCEPT !.pc = "reply"])
         ELSE cogs' = [cogs EXCEPT
                  !.questions = IF f.question \in DOMAIN questions
                                THEN Put(questions, f.question,
                                         ApplyVote(questions[f.question], f.user, f.option,
                                                   f.previous))
                                ELSE questions,
                  !.coro = Put(coro, c, [f EXCEPT !.pc = IF f.previous = "none"
                                                          THEN "lb_find" ELSE "reply"])]
    /\ UNCHANGED << now, nevents, nticks, outside_wyr >>

\* The user's documents in the leaderboard collection, in insertion order:
\* find_one and update_one take the first.
Entries(u) == IF u \in DOMAIN leaderboard THEN leaderboard[u] ELSE << >>

\* update_user_leaderboard's find_one returned or raised (lines 441-443).
LbFound(c) ==
    LET f == CoroOf(c) IN
    /\ f.op = "vote" /\ f.pc = "lb_find"
    /\ \E res \in {"ok", "raised"} :
         SetCoro(c,
                     IF res = "raised" THEN [f EXCEPT !.pc = "reply"]
                     ELSE IF Entries(f.user) = << >>
                          THEN [f EXCEPT !.pc = "lb_insert"]
                          ELSE [f EXCEPT !.pc = "lb_update"])
    /\ UNCHANGED << now, nevents, nticks, outside_wyr >>

\* The entry update_user_leaderboard inserts for a user's first vote.
NewEntry(o) ==
    [ total_votes |-> 1,
      option1_votes |-> IF o = "option1" THEN 1 ELSE 0,
      option2_votes |-> IF o = "option2" THEN 1 ELSE 0 ]

\* The "$inc" of update_user_leaderboard on an entry.
CountVote(e, o) ==
    [e EXCEPT !.total_votes = @ + 1,
              !.option1_votes = IF o = "option1" THEN @ + 1 ELSE @,
              !.option2_votes = IF o = "option2" THEN @ + 1 ELSE @]

\* insert_one or update_one of update_user_leaderboard returned or raised
\* (lines 445-474).
LbWritten(c) ==
    LET f == CoroOf(c)
        es == Entries(f.user)
    IN
    /\ f.op = "vote" /\ f.pc \in {"lb_insert", "lb_update"}
    /\ \E res \in {"ok", "raised"} :
         cogs' = [cogs EXCEPT
             !.leaderboard =
                IF res = "raised" THEN leaderboard
                ELSE IF f.pc = "lb_insert"
                     THEN Put(leaderboard, f.user, Append(es, NewEntry(f.option)))
                     ELSE IF es = << >> THEN leaderboard
                          ELSE Put(leaderboard, f.user,
                                   [es EXCEPT ![1] = CountVote(es[1], f.option)]),
             !.coro = Put(coro, c, [f EXCEPT !.pc = "reply"])]
    /\ UNCHANGED << now, nevents, nticks, outside_wyr >>

\* handle_vote's confirmation message was sent or failed (lines 789-808).
Replied(c) ==
    LET f == CoroOf(c) IN
    /\ f.op = "vote" /\ f.pc = "reply"
    /\ SetCoro(c, Done(f))
    /\ UNCHANGED << now, nevents, nticks, outside_wyr >>

Vote(c) == \E q \in Questions, u \in Voters, o \in Options : VoteStart(c, q, u, o)

\* No vote is being handled.
NoVoteInFlight == \A c \in Slots : CoroOf(c).op = "vote" => FreeSlot(c)

\* The cog just constructed, over a database that holds the questions, none
\* voted on or posted yet; no guild event and no cache manager call comes.
WyrInit ==
    /\ ManagerNew
    /\ servers = EmptyDict
    /\ cogs = [NewCogs EXCEPT !.questions = [q \in Questions |-> NewQuestion]]
    /\ now = 0
    /\ created_at = [u \in Users |-> 0 - 10 * TicksPerDay]
    /\ in_guild = [g \in Guilds |-> TRUE]
    /\ dm_rate_limits = EmptyDict
    /\ guild_cache = EmptyDict
    /\ frame = [h \in Procs |-> NewFrame("none", "u1", "g1")]
    /\ streak = [u \in Users |-> NoStreak]
    /\ joined = {}
    /\ cleaned_blocked = {}
    /\ nevents = 0
    /\ nticks = 0
    /\ dms_sent = [u \in Users |-> 0]
    /\ join_times = [g \in Guilds |-> << >>]

\* Votes handled one at a time: a button press is handled to its end before
\* the next one comes.
NextVoteSeq ==
    \/ \E c \in Slots : InitDbStart(c)
    \/ \E c \in Slots : InitPinged(c)
    \/ nevents < MaxSeqVotes /\ NoVoteInFlight /\ \E c \in Slots : Vote(c)
    \/ \E c \in Slots : VoteFound(c)
    \/ \E c \in Slots : VoteUpdated(c)
    \/ \E c \in Slots : LbFound(c)
    \/ \E c \in Slots : LbWritten(c)
    \/ \E c \in Slots : Replied(c)

VoteSeqSpec == WyrInit /\ [][NextVoteSeq]_vars

\* Votes handled concurrently, interleaved at their awaits.
NextVote ==
    \/ \E c \in Slots : InitDbStart(c)
    \/ \E c \in Slots : InitPinged(c)
    \/ nevents < MaxVotes /\ \E c \in Slots : Vote(c)
    \/ \E c \in Slots : VoteFound(c)
    \/ \E c \in Slots : VoteUpdated(c)
    \/ \E c \in Slots : LbFound(c)
    \/ \E c \in Slots : LbWritten(c)
    \/ \E c \in Slots : Replied(c)

VoteSpec == WyrInit /\ [][NextVote]_vars

\* ------------------------------------------------- posts and the scheduler
\* A scheduler run created with create_task starts (lines 360-374, 383-385).
SchedStart(c) ==
    LET f == CoroOf(c) IN
    /\ f.op = "sched" /\ f.pc = "start"
    /\ \E res \in {"ok", "raised"} : SetCoro(c, SchedBegin(f, f.run, res))
    /\ UNCHANGED << now, nevents, nticks, outside_wyr >>

\* sleep_until returned: post_daily_question runs up to the await inside
\* get_next_question (lines 377, 394-396, 489-490).
SchedWoke(c) ==
    LET f == CoroOf(c) IN
    /\ f.op = "sched" /\ f.pc = "sleep"
    /\ now >= f.until
    /\ SetCoro(c, [f EXCEPT !.pc = "pick"])
    /\ UNCHANGED << now, nevents, nticks, outside_wyr >>

\* The fallback's sleep_until returned: the retry run is created (line 386).
RetryWoke(c) ==
    LET f == CoroOf(c) IN
    /\ f.op = "sched" /\ f.pc = "retry_sleep"
    /\ now >= f.until
    /\ SetCoro(c, NextRun(f))
    /\ UNCHANGED << now, nevents, nticks, outside_wyr >>

\* /wyr post without random_pick: post_wyr runs up to the await inside
\* get_next_question (lines 51-56, 480-490).
PostStart(c) ==
    /\ FirstFreeSlot(c)
    /\ nevents' = nevents + 1
    /\ SetCoro(c, [NewCoro("post") EXCEPT !.pc = IF wyr_collection THEN "pick"
                                                           ELSE "reply"])
    /\ UNCHANGED << now, nticks, outside_wyr >>

\* The questions find(...).sort("used_count", 1) may return first.
LeastUsed ==
    {q \in DOMAIN questions :
        \A p \in DOMAIN questions : questions[q].used_count <= questions[p].used_count}

\* The post attempt of a coroutine is over: the scheduler creates its next run
\* (line 380); post_wyr returns, after its error message when it failed
\* (lines 81-90).
EndPost(f, failed) ==
    IF f.op = "sched" THEN NextRun(f)
    ELSE IF failed THEN [f EXCEPT !.pc = "reply"]
    ELSE Done(f)

\* to_list of get_next_question returned or raised (lines 490-504); the post
\* goes on to its first send (lines 397-409, 58-67).
Picked(c) ==
    LET f == CoroOf(c) IN
    /\ f.op \in {"sched", "post"} /\ f.pc = "pick"
    /\ \E res \in {"ok", "raised"}, q \in Questions, channel \in BOOLEAN :
         /\ q \in LeastUsed
         /\ SetCoro(c,
                        IF res = "raised" \/ (f.op = "sched" /\ ~channel)
                        THEN EndPost(f, TRUE)
                        ELSE [f EXCEPT !.pc = "send", !.question = q])
    /\ UNCHANGED << now, nevents, nticks, outside_wyr >>

\* The await after pc l of a post: channel.send, create_thread and thread.send
\* of post_daily_question (lines 409-419); send_message, original_response,
\* create_thread and thread.send of post_wyr (lines 67-77); then the update_one
\* of increment_used_count.
AfterPost(f) ==
    CASE f.pc = "send" -> IF f.op = "post" THEN "original" ELSE "thread"
      [] f.pc = "original" -> "thread"
      [] f.pc = "thread" -> "starter"
      [] OTHER -> "inc"

\* A Discord call of a post returned or raised.
PostStep(c) ==
    LET f == CoroOf(c) IN
    /\ f.op \in {"sched", "post"} /\ f.pc \in {"send", "original", "thread", "starter"}
    /\ \E res \in {"ok", "raised"} :
         SetCoro(c, IF res = "raised" THEN EndPost(f, TRUE)
                              ELSE [f EXCEPT !.pc = AfterPost(f)])
    /\ UNCHANGED << now, nevents, nticks, outside_wyr >>

\* increment_used_count's "$inc" on a question document.
Used(doc) == [doc EXCEPT !.used_count = @ + 1]

\* increment_used_count's update_one returned or raised (lines 661-673): the
\* post is over.
Incremented(c) ==
    LET f == CoroOf(c) IN
    /\ f.op \in {"sched", "post"} /\ f.pc = "inc"
    /\ \E res \in {"ok", "raised"} :
         cogs' = [cogs EXCEPT
             !.questions = IF res = "ok" /\ f.question \in DOMAIN questions
                           THEN Put(questions, f.question, Used(questions[f.question]))
                           ELSE questions,
             !.coro = Put(coro, c, EndPost(f, FALSE))]
    /\ UNCHANGED << now, nevents, nticks, outside_wyr >>

\* post_wyr's message about no question or about the error was sent or failed
\* (lines 58-61, 81-90).
PostReplied(c) ==
    LET f == CoroOf(c) IN
    /\ f.op = "post" /\ f.pc = "reply"
    /\ SetCoro(c, Done(f))
    /\ UNCHANGED << now, nevents, nticks, outside_wyr >>

\* The scheduler alone, as the clock advances: every call it awaits returns or
\* raises, and a sleep_until that is due returns.
NextSched ==
    \/ nticks < MaxSchedTicks /\ Tick
    \/ \E c \in Slots : InitDbStart(c)
    \/ \E c \in Slots : InitPinged(c)
    \/ \E c \in Slots : SchedStart(c)
    \/ \E c \in Slots : SchedWoke(c)
    \/ \E c \in Slots : RetryWoke(c)
    \/ \E c \in Slots : Picked(c)
    \/ \E c \in Slots : PostStep(c)
    \/ \E c \in Slots : Incremented(c)

SchedSpec ==
    /\ WyrInit /\ [][NextSched]_vars
    /\ \A c \in Slots :
         /\ WF_vars(InitPinged(c)) /\ WF_vars(SchedStart(c)) /\ WF_vars(SchedWoke(c))
         /\ WF_vars(RetryWoke(c)) /\ WF_vars(Picked(c)) /\ WF_vars(PostStep(c))
         /\ WF_vars(Incremented(c))

\* Scheduled posts and manual posts, interleaved in any way at their awaits.
NextPost ==
    \/ nticks < MaxPostTicks /\ Tick
    \/ \E c \in Slots : InitDbStart(c)
    \/ \E c \in Slots : InitPinged(c)
    \/ \E c \in Slots : SchedStart(c)
    \/ \E c \in Slots : SchedWoke(c)
    \/ \E c \in Slots : RetryWoke(c)
    \/ nevents < MaxPosts /\ \E c \in Slots : PostStart(c)
    \/ \E c \in Slots : Picked(c)
    \/ \E c \in Slots : PostStep(c)
    \/ \E c \in Slots : Incremented(c)
    \/ \E c \in Slots : PostReplied(c)

PostSpec == WyrInit /\ [][NextPost]_vars

\* ------------------------------------------------- the drops tracker
\* Two of channel_map's collection names, the (year, month) pairs of the
\* events, and the slots of the listeners' coroutines.
Colls == {"Updates", "Free"}
Months == 1..3
DropSlots == {"d1", "d2"}

\* The frame of a listener: the collection and month of its event.
NewDrop == [pc |-> "idle", coll |-> "none", month |-> 0]

DropOf(d) == IF d \in DOMAIN drop THEN drop[d] ELSE NewDrop
FreeDrop(d) == DropOf(d).pc \in {"idle", "done"}
FirstFreeDrop(d) == FreeDrop(d) /\ (d = "d2" => ~FreeDrop("d1"))

\* What no listener of the tracker changes.
outside_drops == << now, nticks, created_at, in_guild, dm_rate_limits, guild_cache, frame,
                   streak, joined, cleaned_blocked, observed, cmvars >>

\* The cogs just constructed, the tracker after cog_load, over empty
\* statistics collections.
DropsInit == WyrInit

\* A message or an embed edit that is not counted: a DM, an untracked channel,
\* an edit that leaves the embeds as they were (lines 172-183, 229-243).
DropIgnored ==
    /\ nevents' = nevents + 1
    /\ UNCHANGED << outside_drops, cogs >>

\* A tracked message or embed edit arrives: handle_message or
\* handle_message_edit up to its first suspension (lines 172-211, 229-268), at
\* the lock when it is taken, in to_thread otherwise.
DropStart(d, coll, month) ==
    /\ FirstFreeDrop(d)
    /\ nevents' = nevents + 1
    /\ IF CanAcquire(op_lock)
       THEN cogs' = [cogs EXCEPT
                !.op_lock = [op_lock EXCEPT !.locked = TRUE],
                !.drop = Put(drop, d, [pc |-> "thread", coll |-> coll, month |-> month])]
       ELSE cogs' = [cogs EXCEPT
                !.op_lock = [op_lock EXCEPT !.waiters = Append(op_lock.waiters, d)],
                !.drop = Put(drop, d, [pc |-> "lock", coll |-> coll, month |-> month])]
    /\ UNCHANGED outside_drops

\* The first waiter of the released lock takes it and starts to_thread.
DropLockAcquired(d) ==
    /\ DropOf(d).pc = "lock"
    /\ ~op_lock.locked
    /\ Head(op_lock.waiters) = d
    /\ cogs' = [cogs EXCEPT
            !.op_lock = [locked |-> TRUE, waiters |-> Tail(op_lock.waiters)],
            !.drop = Put(drop, d, [DropOf(d) EXCEPT !.pc = "thread"])]
    /\ UNCHANGED << outside_drops, nevents >>

\* Python's round(total / months, 2), in hundredths: the nearest hundredth (a
\* tie, which no total over at most 3 months produces, taken to the even one).
Round2(total, months) ==
    LET n == 100 * total
        q == n \div months
        r == n % months
    IN IF 2 * r > months \/ (2 * r = months /\ q % 2 = 1) THEN q + 1 ELSE q

\* Every event taken for the first one of its month.
NewMonth_Always(coll, month) == TRUE

\* update_result.upserted_id is not None: the monthly document was created by
\* this event (line 311).
NewMonth(coll, month) == << coll, month >> \notin DOMAIN stats_monthly

\* The totals document of a collection; the one an upsert creates holds only
\* what the update names.
Totals(coll) ==
    IF coll \in DOMAIN stats_totals THEN stats_totals[coll]
    ELSE [total_count |-> 0, months_with_data |-> 0, average_per_month |-> 0]

\* stats_monthly after _process_event_sync ran the first `calls` of its four
\* database calls (lines 300, 328, 346, 356).
MonthlyAfter(coll, month, calls) ==
    IF calls >= 1
    THEN Put(stats_monthly, << coll, month >>, Get(stats_monthly, << coll, month >>) + 1)
    ELSE stats_monthly

\* stats_totals after _process_event_sync ran its first `calls` calls.
TotalsAfter(coll, month, calls) ==
    LET t == Totals(coll)
        inc == [t EXCEPT !.total_count = @ + 1,
                         !.months_with_data = IF NewMonth(coll, month) THEN @ + 1 ELSE @]
        avg == IF inc.months_with_data > 0
               THEN Round2(inc.total_count, inc.months_with_data) ELSE 0
    IN IF calls >= 4 THEN Put(stats_totals, coll, [inc EXCEPT !.average_per_month = avg])
       ELSE IF calls >= 2 THEN Put(stats_totals, coll, inc)
       ELSE stats_totals

\* to_thread(_process_event_sync) returned or raised (lines 279-384, 212-220):
\* the calls before the one that raised were applied, the lock is released.
DropProcessed(d) ==
    LET f == DropOf(d) IN
    /\ f.pc = "thread"
    /\ \E calls \in 0..4 :
         cogs' = [cogs EXCEPT
             !.stats_monthly = MonthlyAfter(f.coll, f.month, calls),
             !.stats_totals = TotalsAfter(f.coll, f.month, calls),
             !.db_failed = (db_failed \/ calls < 4),
             !.op_lock = [op_lock EXCEPT !.locked = FALSE],
             !.drop = Put(drop, d, [NewDrop EXCEPT !.pc = "done"])]
    /\ UNCHANGED << outside_drops, nevents >>

\* Messages and embed edits in the tracked channels, their listeners
\* interleaved in any way.
NextDrops ==
    \/ nevents < MaxDrops /\ DropIgnored
    \/ nevents < MaxDrops /\ \E d \in DropSlots, coll \in Colls, month \in Months :
                                 DropStart(d, coll, month)
    \/ \E d \in DropSlots : DropLockAcquired(d)
    \/ \E d \in DropSlots : DropProcessed(d)

DropsSpec == DropsInit /\ [][NextDrops]_vars

\* ------------------------------------------------- the claims
\* The step of slot h is handle_member_join's call of can_send_dm.
CanSendStep(h) ==
    /\ frame[h].pc \in {"join_flush", "join_init"}
    /\ frame'[h].pc \in {"dm_send", "sleep1"}

\* The member of slot h is under the rate limiter's age threshold now.
Young(h) == Days(now - created_at[frame[h].member]) < new_account_days

\* How often call c occurs in the call history cs.
Count(c, cs) == Cardinality({i \in DOMAIN cs : cs[i] = c})

\* C1: for a user under the rate limiter's age threshold, a can_send_dm call made
\* in the window in which max_dms_per_hour sends were recorded returns false and
\* leaves a block in force (set by this call to now + block_duration_hours unless
\* one is in force already); and every can_send_dm call made while blocked_until
\* is still ahead returns false and leaves blocked_until as it is, also when the
\* hourly window has passed in between.
C1_BlockHolds ==
    [][\A h \in Procs :
         CanSendStep(h) /\ Young(h) /\ frame[h].member \in DOMAIN dm_rate_limits =>
           LET u == frame[h].member
               lim == dm_rate_limits[u]
               lim2 == dm_rate_limits'[u]
               blocked == lim.blocked_until # NoneT /\ now < lim.blocked_until
           IN /\ lim.count >= max_dms_per_hour /\ now - lim.last_reset < WindowTicks =>
                   /\ ~frame'[h].can_dm
                   /\ lim2.blocked_until # NoneT /\ now < lim2.blocked_until
                   /\ ~blocked => lim2.blocked_until = now + BlockTicks
              /\ blocked =>
                   /\ ~frame'[h].can_dm
                   /\ lim2.blocked_until = lim.blocked_until
      ]_vars

\* C1's case: a join is refused its DM by a block that outlived the window.
C1_Witness ==
    \E h \in Procs :
       /\ frame[h].pc = "sleep1"
       /\ frame[h].reason = "Blocked"
       /\ frame[h].member \in DOMAIN dm_rate_limits
       /\ now - dm_rate_limits[frame[h].member].last_reset >= WindowTicks
       /\ now < dm_rate_limits[frame[h].member].blocked_until

\* C2, as claimed: for a user under the age threshold, a can_send_dm call made
\* when now - last_reset >= 1 hour resets the attempt count to 0 and unsets
\* blocked_until, whatever block is in force.
C2_ResetClearsAnyBlock ==
    [][\A h \in Procs :
         CanSendStep(h) /\ Young(h) /\ frame[h].member \in DOMAIN dm_rate_limits =>
           LET u == frame[h].member IN
           now - dm_rate_limits[u].last_reset >= WindowTicks =>
              /\ dm_rate_limits'[u].count = 0
              /\ dm_rate_limits'[u].blocked_until = NoneT
      ]_vars

\* C2, amended: for a user under the age threshold, a can_send_dm call made when
\* now - last_reset >= 1 hour and no block is still ahead (blocked_until unset, or
\* not after now) sets the attempt count to 0, restarts the window at now and
\* unsets blocked_until; a call made while blocked_until is still ahead leaves the
\* count, the window start and blocked_until as they are, however old the window.
C2_ResetUnlessBlocked ==
    [][\A h \in Procs :
         CanSendStep(h) /\ Young(h) /\ frame[h].member \in DOMAIN dm_rate_limits =>
           LET u == frame[h].member
               lim == dm_rate_limits[u]
               lim2 == dm_rate_limits'[u]
               blocked == lim.blocked_until # NoneT /\ now < lim.blocked_until
           IN /\ now - lim.last_reset >= WindowTicks /\ ~blocked =>
                   /\ lim2.count = 0
                   /\ lim2.last_reset = now
                   /\ lim2.blocked_until = NoneT
                   /\ frame'[h].can_dm
              /\ blocked =>
                   /\ lim2.count = lim.count
                   /\ lim2.last_reset = lim.last_reset
                   /\ lim2.blocked_until = lim.blocked_until
      ]_vars

\* C2's case: a check made after a block ran out has restarted the window and
\* cleared the block (the fourth check of the user, none of them cleaned up).
C2_Witness ==
    \E h \in Procs :
       /\ frame[h].pc = "dm_send"
       /\ frame[h].reason = "Within limits"
       /\ frame[h].member \in DOMAIN dm_rate_limits
       /\ LET lim == dm_rate_limits[frame[h].member] IN
            /\ lim.total_attempts > max_dms_per_hour + 1
            /\ lim.count = 0
            /\ lim.last_reset = now
            /\ lim.blocked_until = NoneT
            /\ now - lim.first_attempt >= BlockTicks

\* C3: a can_send_dm call for a user whose account age in days is at or above
\* new_account_days returns allowed=true and leaves the rate-limit table as it
\* is, whatever the user's entry holds.
C3_OldAccountsAllowed ==
    [][\A h \in Procs :
         CanSendStep(h) /\ ~Young(h) =>
            /\ frame'[h].can_dm
            /\ frame'[h].reason = "Account old enough"
            /\ dm_rate_limits' = dm_rate_limits
      ]_vars

\* C3's case: a user blocked while under the threshold is allowed once old enough,
\* with the block still ahead.
C3_Witness ==
    \E h \in Procs :
       /\ frame[h].pc = "dm_send"
       /\ frame[h].can_dm
       /\ frame[h].member \in DOMAIN dm_rate_limits
       /\ LET lim == dm_rate_limits[frame[h].member] IN
            /\ lim.count >= max_dms_per_hour
            /\ lim.blocked_until # NoneT /\ now < lim.blocked_until

\* The handler in slot f is a join handler on the reject path / the accept path,
\* by the member's account age in days when the handler started (line 248).
JoinAge(f) == f.account_age
Rejecting(f) == f.handler = "join" /\ JoinAge(f) < GateAgeDays
Accepting(f) == f.handler = "join" /\ JoinAge(f) >= GateAgeDays

\* The place of the first call c in the call history cs (0: none).
IndexOf(c, cs) ==
    IF \E i \in DOMAIN cs : cs[i] = c
    THEN CHOOSE i \in DOMAIN cs : cs[i] = c /\ \A j \in 1..(i - 1) : cs[j] # c
    ELSE 0

\* C4: joins handled one at a time, the same under-threshold user joining again
\* and again within one hour of the first join's check, no cleanup in between and
\* every DM so far delivered: each of the first max_dms_per_hour (2) joins is
\* allowed and attempts exactly one DM; from the next join on can_send_dm returns
\* false, no DM is attempted, and the handler still issues its one kick.
C4_ThirdJoinSkipsDm ==
    \A h \in Procs :
       LET f == frame[h] IN
       f.handler = "join" /\ f.nth >= 1 =>
          /\ f.nth <= max_dms_per_hour => f.can_dm /\ Count("dm", f.calls) = 1
          /\ f.nth > max_dms_per_hour =>
               /\ ~f.can_dm
               /\ Count("dm", f.calls) = 0
               /\ f.pc = "done" => Count("kick", f.calls) = 1

\* C4's case: the third join of the streak, checked later than the first one,
\* has ended with the DM skipped and the kick issued.
C4_Witness ==
    \E h \in Procs :
       /\ frame[h].pc = "done"
       /\ frame[h].nth = max_dms_per_hour + 1
       /\ frame[h].reason = "Rate limit exceeded"
       /\ frame[h].member \in DOMAIN dm_rate_limits
       /\ dm_rate_limits[frame[h].member].blocked_until
             > streak[frame[h].member].start + BlockTicks
       /\ Count("kick", frame[h].calls) = 1

\* C5: the member-remove cleanup leaves no entry for the user, whatever the entry
\* held; and a can_send_dm call for an under-threshold user with no entry, be it
\* the first ever or the first after a cleanup, returns allowed=true and leaves
\* the entry of a fresh user: count 0, no block, total_attempts 1, first_attempt
\* and the window start at the time of the call.
C5_CleanupGivesFreshState ==
    [][\A h \in Procs :
         LET u == frame[h].member IN
         /\ frame[h].pc = "rm_flush" /\ frame'[h].pc = "rm_members" =>
               u \notin DOMAIN dm_rate_limits'
         /\ CanSendStep(h) /\ Young(h) /\ u \notin DOMAIN dm_rate_limits =>
               /\ frame'[h].can_dm
               /\ frame'[h].reason = "Within limits"
               /\ u \in DOMAIN dm_rate_limits'
               /\ dm_rate_limits'[u] = [ count |-> 0, last_reset |-> now,
                                         blocked_until |-> NoneT, total_attempts |-> 1,
                                         first_attempt |-> now ]
      ]_vars

\* C5's case: a user whose entry was deleted while blocked has been checked
\* again and holds a fresh entry.
C5_Witness ==
    \E h \in Procs :
       LET u == frame[h].member IN
       /\ frame[h].pc = "dm_send"
       /\ u \in cleaned_blocked
       /\ u \in DOMAIN dm_rate_limits
       /\ dm_rate_limits[u].total_attempts = 1
       /\ dm_rate_limits[u].first_attempt = now
       /\ dm_rate_limits[u].blocked_until = NoneT

\* C6: a join handler on the reject path issues the kick at most once, and has
\* issued it exactly once when it ends, whether the DM was sent, was forbidden,
\* failed otherwise or was skipped by the rate limiter.
C6_KickExactlyOnce ==
    \A h \in Procs :
       Rejecting(frame[h]) =>
          /\ Count("kick", frame[h].calls) <= 1
          /\ frame[h].pc = "done" => Count("kick", frame[h].calls) = 1

\* C6's case: a handler whose DM failed has ended with its kick issued, after the
\* rate limiter had let the DM through.
C6_Witness ==
    \E h \in Procs :
       /\ Rejecting(frame[h])
       /\ frame[h].pc = "done"
       /\ frame[h].dm_result = "failed"
       /\ Count("kick", frame[h].calls) = 1

C8_FirstJoinDmThenKick ==
    \A h \in Procs :
       LET f == frame[h] IN
       f.handler = "join" /\ f.first_join /\ JoinAge(f) < new_account_days
         /\ f.pc = "done" =>
          /\ Count("dm", f.calls) = 1
          /\ Count("kick", f.calls) = 1
          /\ IndexOf("dm", f.calls) < IndexOf("kick", f.calls)
          /\ f.kick_reason = JoinAge(f)

\* C8's case: the first join of a 10-day-old account has ended.
C8_Witness ==
    \E h \in Procs :
       /\ frame[h].handler = "join"
       /\ frame[h].first_join
       /\ frame[h].pc = "done"
       /\ frame[h].kick_reason = 10
       /\ frame[h].calls[2] = "can_send_dm"

\* The stored count of guild g for bucket b of one join pattern (0: none stored).
PatternCount(cache, g, kind, b) ==
    IF g \in DOMAIN cache THEN Get(cache[g].join_patterns[kind], b) ELSE 0

\* The buckets guild g holds a count for.
Buckets(cache, g, kind) ==
    IF g \in DOMAIN cache THEN DOMAIN cache[g].join_patterns[kind] ELSE {}

PatternKinds == {"hourly", "daily", "weekly"}

\* C9 as stated: for a fixed guild and bucket the stored join-pattern count never
\* decreases in any step of any handler, the bot's removal from the guild
\* included.
C9_PatternsNeverDecrease ==
    [][\A g \in Guilds, kind \in PatternKinds :
         \A b \in Buckets(guild_cache, g, kind) :
            PatternCount(guild_cache', g, kind, b) >= PatternCount(guild_cache, g, kind, b)
      ]_vars

\* C9: for a fixed guild and bucket the stored join-pattern count never decreases
\* in a step that leaves the guild's entry in the cache (member joins, removes and
\* kicks, cache initialization, role updates); the entry, and its counts with it,
\* goes away only in the step that handles the bot's removal from the guild.
C9_PatternsKeptWhileEntryLives ==
    [][\A g \in Guilds :
         /\ g \in DOMAIN guild_cache' =>
              \A kind \in PatternKinds :
                 \A b \in Buckets(guild_cache, g, kind) :
                    PatternCount(guild_cache', g, kind, b)
                       >= PatternCount(guild_cache, g, kind, b)
         /\ g \in DOMAIN guild_cache /\ g \notin DOMAIN guild_cache' =>
              in_guild[g] /\ ~in_guild'[g]
      ]_vars

\* C9's case: a cache initialization has finished on an entry that had counted
\* a join, and the join is still counted in its hourly pattern.
C9_Witness ==
    \E g \in Guilds :
       /\ g \in DOMAIN guild_cache
       /\ guild_cache[g].new_member_joins_today = 0
       /\ \E b \in DOMAIN guild_cache[g].join_patterns.hourly :
             guild_cache[g].join_patterns.hourly[b] >= 1

\* A handler passes from member.send to the await inside record_dm_sent.
RecordStep(h) == frame[h].pc = "dm_send" /\ frame'[h].pc = "dm_flush"

\* C10 as stated: every record_dm_sent call increases the user's count by 1 and
\* the user's total_attempts by 1.
C10_RecordBumpsBoth ==
    [][\A h \in Procs :
         RecordStep(h) =>
            LET u == frame[h].member
                e == LimitsOf(dm_rate_limits, u, now)
            IN /\ u \in DOMAIN dm_rate_limits'
               /\ dm_rate_limits'[u].count = e.count + 1
               /\ dm_rate_limits'[u].total_attempts = e.total_attempts + 1
      ]_vars

\* C10: every record_dm_sent call increases the user's count by exactly 1 and
\* leaves every other field of the entry, total_attempts included, as it was (as
\* a new entry's, if the user had none), whether or not can_send_dm had counted
\* an attempt for the entry.
C10_RecordBumpsCountOnly ==
    [][\A h \in Procs :
         RecordStep(h) =>
            LET u == frame[h].member
                e == LimitsOf(dm_rate_limits, u, now)
            IN /\ u \in DOMAIN dm_rate_limits'
               /\ dm_rate_limits'[u] = [e EXCEPT !.count = e.count + 1]
      ]_vars

\* C10's case: a send has been recorded in an entry no can_send_dm call counted
\* an attempt for.
C10_Witness ==
    \E h \in Procs :
       LET u == frame[h].member IN
       /\ frame[h].pc = "dm_flush"
       /\ u \in DOMAIN dm_rate_limits
       /\ dm_rate_limits[u].count = 1
       /\ dm_rate_limits[u].total_attempts = 0

\* C11 as stated: update_guild_metrics called with the unlisted type "dm_sent"
\* (by record_dm_sent) leaves the guild metrics cache as it was, the presence of
\* the guild's entry included.
C11_UnknownTypeNoOp ==
    [][\A h \in Procs : RecordStep(h) => guild_cache' = guild_cache]_vars

\* C11: update_guild_metrics called with the unlisted type "dm_sent" raises no
\* error and leaves every counter, join pattern and security metric of the guild
\* as it was, but it sets last_activity to the time of the call, and a guild with
\* no entry gets one (all counters zero).
C11_UnknownTypeTouchesActivity ==
    [][\A h \in Procs :
         RecordStep(h) =>
            LET g == frame[h].guild
                cd == CacheOf(guild_cache, g)
            IN /\ g \in DOMAIN guild_cache'
               /\ guild_cache'[g] = [cd EXCEPT !.last_activity = now]
               /\ \A g2 \in DOMAIN guild_cache \ {g} :
                     g2 \in DOMAIN guild_cache' /\ guild_cache'[g2] = guild_cache[g2]
      ]_vars

\* C11's case: a "dm_sent" call has created the entry of a guild that had none
\* (the bot was removed from the guild while member.send was awaited).
C11_Witness ==
    \E h \in Procs :
       LET g == frame[h].guild IN
       /\ frame[h].pc = "dm_flush"
       /\ ~in_guild[g]
       /\ g \in DOMAIN guild_cache
       /\ guild_cache[g] = [DefaultGuild EXCEPT !.last_activity = now]

\* The step of slot h is a direct call of update_guild_metrics / its return.
CallStep(h) == frame[h].pc # "um_flush" /\ frame'[h].pc = "um_flush"
ReturnStep(h) == frame[h].pc = "um_flush" /\ frame'[h].pc = "done"

\* C12: every update_guild_metrics call attempts one flush after its in-memory
\* change; when the call returns, whether the flush succeeded or failed, the
\* guild metrics cache is as the call's change left it and no exception leaves
\* update_guild_metrics.
C12_FlushFailureKeepsChange ==
    [][\A h \in Procs :
         /\ CallStep(h) => frame'[h].calls = << "flush" >>
         /\ ReturnStep(h) =>
              /\ guild_cache' = guild_cache
              /\ ~frame'[h].raised
              /\ frame'[h].calls = << "flush" >>
      ]_vars

\* C12's case: a member_join call whose flush failed has returned, and the join
\* is still counted.
C12_Witness ==
    \E h \in Procs :
       LET f == frame[h] IN
       /\ f.pc = "done"
       /\ f.event_type = "member_join"
       /\ f.flush_result = "failed"
       /\ f.guild \in DOMAIN guild_cache
       /\ guild_cache[f.guild].new_member_joins_today >= 1
       /\ guild_cache[f.guild].join_patterns.hourly[HourOf(now)] >= 1

\* The rapid_joins metric of guild g (0: no entry).
RapidJoins(cache, g) ==
    IF g \in DOMAIN cache THEN cache[g].security_metrics.rapid_joins ELSE 0

\* C13: a member_join call increments security_metrics.rapid_joins only if more
\* than 10 joins of the guild, this one included, fell on the date and hour of
\* the call.
C13_RapidJoinsWithinOneHour ==
    [][\A h \in Procs :
         CallStep(h) /\ RapidJoins(guild_cache', frame'[h].guild)
                          > RapidJoins(guild_cache, frame'[h].guild) =>
            Get(frame'[h].hist, DateHourOf(now)) > RapidJoinLimit
      ]_vars

\* C14: a join handler for a guild that had no cache entry when the join event
\* came has run initialize_guild_cache by the time it is past its cache check.
C14_FirstContactInitializes ==
    \A h \in Procs :
       LET f == frame[h] IN
       f.handler = "join" /\ f.first_contact /\ f.pc # "join_flush" =>
          Count("initialize_guild_cache", f.calls) >= 1

\* A step in which some handler calls update_guild_metrics: it arrives at the
\* flush the call ends with.
FlushPcs == {"join_flush", "dm_flush", "kick_flush", "rm_flush", "um_flush"}
UpdateStep ==
    \E k \in Procs : frame'[k].pc \in FlushPcs /\ frame'[k] # frame[k]

\* C15: the result of get_guild_analytics is a copy: an update_guild_metrics call
\* made while a handler holds the result leaves the join_patterns and
\* security_metrics read through it unchanged, and the call of
\* get_guild_analytics leaves the guild cache unchanged.
C15_SnapshotIsCopy ==
    [][\A h \in Procs :
          /\ frame[h].analytics = "cached" /\ frame'[h].analytics = "cached" /\ UpdateStep
                => AnalyticsView(h)' = AnalyticsView(h)
          /\ frame[h].pc = "sleep_w" /\ frame'[h].pc = "welcome"
                => guild_cache' = guild_cache]_vars

\* C16: while a user's rate-limit entry exists, total_attempts never decreases
\* and first_attempt, once set, never changes; a can_send_dm that resets the
\* window or sets a block adds its one attempt and changes neither field
\* otherwise.
C16_DiagnosticsAccumulate ==
    [][\A u \in Users :
          u \in DOMAIN dm_rate_limits /\ u \in DOMAIN dm_rate_limits' =>
             LET e == dm_rate_limits[u]
                 e2 == dm_rate_limits'[u]
             IN /\ e2.total_attempts >= e.total_attempts
                /\ e.first_attempt # NoneT => e2.first_attempt = e.first_attempt
                /\ e2.last_reset # e.last_reset \/ e2.blocked_until # e.blocked_until =>
                      e2.total_attempts = e.total_attempts + 1]_vars

\* A user blocked on the third attempt whose window was reset on a later one.
C16_Witness ==
    \E u \in DOMAIN dm_rate_limits :
       LET e == dm_rate_limits[u] IN
       /\ e.total_attempts >= 4
       /\ e.first_attempt # NoneT /\ e.last_reset > e.first_attempt
       /\ e.blocked_until = NoneT

\* The remove handler in slot h has completed, it serves the latest event
\* delivered to a handler, and no join handler of its member is still running.
LeftAndSettled(h) ==
    /\ frame[h].handler = "remove" /\ frame[h].pc = "done"
    /\ \A k \in Procs \ {h} :
          /\ frame[k].seq < frame[h].seq
          /\ frame[k].handler = "join" /\ frame[k].member = frame[h].member
                => frame[k].pc = "done"

\* C17: once the remove handler of a user has completed and no join handler of
\* the user is still running, dm_rate_limits holds no entry for the user.
C17_NoEntryAfterLeave ==
    \A h \in Procs : LeftAndSettled(h) => frame[h].member \notin DOMAIN dm_rate_limits

\* C18: a guild the bot was removed from, with no event delivered for it since
\* (every later event needs the bot back in the guild), has no guild_cache
\* entry, whatever the handlers suspended at the removal do afterwards.
C18_NoEntryAfterGuildRemove ==
    \A g \in Guilds : ~in_guild[g] => g \notin DOMAIN guild_cache

\* The refresh and the welcome among the calls cs, in order.
IsWelcomeStep(c) == c \in {"cache_members", "welcome"}
WelcomeSteps(cs) == SelectSeq(cs, IsWelcomeStep)

\* C19: on the accept path the member-cache refresh and the welcome message are
\* each attempted at most once, the refresh before the welcome, and a handler
\* that attempted the refresh ends having attempted the welcome, whether the
\* refresh failed or not.
C19_RefreshThenWelcome ==
    \A h \in Procs :
       LET f == frame[h] IN
       Accepting(f) =>
          LET ws == WelcomeSteps(f.calls) IN
          /\ Len(ws) <= 2
          /\ ws = SubSeq(<< "cache_members", "welcome" >>, 1, Len(ws))
          /\ f.pc = "done" /\ Len(ws) >= 1 => Len(ws) = 2

\* A handler whose refresh failed has attempted the welcome message.
C19_Witness ==
    \E h \in Procs :
       /\ Accepting(frame[h])
       /\ frame[h].members_result = "failed"
       /\ Count("welcome", frame[h].calls) = 1

\* The pacing delays and the removal call among the calls cs, in order.
IsRemovalStep(c) == c \in {"sleep", "kick"}
RemovalSteps(cs) == SelectSeq(cs, IsRemovalStep)

\* C20: on the reject path a handler sleeps, then kicks, then sleeps again, in
\* that order and once each; a handler that has ended has done all three,
\* whether the kick failed or not.
C20_SleepKickSleep ==
    \A h \in Procs :
       LET f == frame[h] IN
       Rejecting(f) =>
          LET rs == RemovalSteps(f.calls) IN
          /\ Len(rs) <= 3
          /\ rs = SubSeq(<< "sleep", "kick", "sleep" >>, 1, Len(rs))
          /\ f.pc = "done" => Len(rs) = 3

\* A handler whose kick failed is in, or past, its second pacing delay.
C20_Witness ==
    \E h \in Procs :
       /\ Rejecting(frame[h])
       /\ frame[h].kick_result = "error"
       /\ frame[h].pc = "done"
       /\ Count("sleep", frame[h].calls) = 2

\* C21: every handle_member_join invocation reaches its end, along one of the
\* two paths only, and no exception leaves it.
C21_JoinTerminates ==
    \A h \in Procs :
       /\ (frame[h].handler = "join" /\ frame[h].pc # "done") ~> (frame[h].pc = "done")
       /\ [](frame[h].handler = "join" =>
               /\ ~frame[h].raised
               /\ ~(Count("kick", frame[h].calls) > 0 /\ Count("welcome", frame[h].calls) > 0))

\* A join handler has ended after its send and its kick both raised, a second
\* handler having run beside it.
C21_Witness ==
    \E h, k \in Procs :
       /\ Rejecting(frame[h]) /\ frame[h].pc = "done"
       /\ frame[h].dm_result = "failed" /\ frame[h].kick_result = "error"
       /\ k # h /\ frame[k].handler \in {"join", "remove"} /\ frame[k].pc = "done"

\* C24: within one window and with no cleanup, an under-threshold user is sent
\* at most max_dms_per_hour DMs, however the join handlers interleave.
C24_AtMostMaxDmsConcurrently ==
    \A u \in Users :
       Days(now - created_at[u]) < new_account_days => dms_sent[u] <= max_dms_per_hour

\* C25: an under-threshold user who is kicked and rejoins repeatedly within one
\* hour, each kick followed by the member-remove event, is sent at most
\* max_dms_per_hour DMs in that hour.
C25_LimitSurvivesRejoin ==
    [][\A u \in Users :
          dms_sent'[u] > dms_sent[u] /\ Days(now - created_at[u]) < new_account_days
             => dms_sent[u] < max_dms_per_hour]_vars

\* C26: every user on the reject path, whatever the account age that put the
\* user there, is sent at most max_dms_per_hour DMs within one hour, the joins
\* handled one at a time with no cleanup.
C26_EveryRejectedUserLimited ==
    \A u \in Users :
       TooNew(Days(now - created_at[u])) => dms_sent[u] <= max_dms_per_hour

\* C27: when member.send raises, record_dm_sent is not called, and the user's
\* count is, at every later step of the handler, what it was before the send.
C27_FailedSendNotRecorded ==
    [][\A h \in Procs :
          LET f == frame[h] IN
          /\ f.pc = "dm_send" /\ frame'[h].dm_result = "failed" =>
                /\ dm_rate_limits' = dm_rate_limits
                /\ Count("record_dm_sent", frame'[h].calls) = 0
          /\ f.handler = "join" /\ f.dm_result = "failed" /\ frame'[h] # f =>
                /\ frame'[h].handler = "join" => Count("record_dm_sent", frame'[h].calls) = 0
                /\ frame'[h].member = f.member => dm_rate_limits' = dm_rate_limits]_vars

\* A handler has ended after a send that raised, the user's count still at the
\* one DM delivered before.
C27_Witness ==
    \E h \in Procs :
       /\ frame[h].handler = "join" /\ frame[h].pc = "done"
       /\ frame[h].dm_result = "failed"
       /\ frame[h].member \in DOMAIN dm_rate_limits
       /\ dm_rate_limits[frame[h].member].count = 1

\* C28: block_duration_hours is at least the one-hour window, and for a user
\* under the age threshold whose entry holds a block, a can_send_dm call made at
\* or after blocked_until returns allowed with the count at 0 and blocked_until
\* unset.
C28_BlockLifts ==
    [][/\ BlockTicks >= WindowTicks
       /\ \A h \in Procs :
            CanSendStep(h) /\ Young(h) /\ frame[h].member \in DOMAIN dm_rate_limits =>
              LET u == frame[h].member
                  lim == dm_rate_limits[u]
              IN lim.blocked_until # NoneT /\ now >= lim.blocked_until =>
                    /\ frame'[h].can_dm
                    /\ dm_rate_limits'[u].count = 0
                    /\ dm_rate_limits'[u].blocked_until = NoneT
      ]_vars

\* The fourth join of a user is allowed its DM exactly block_duration_hours after
\* the three joins of one instant, of which the third set the block.
C28_Witness ==
    \E h \in Procs :
       LET u == frame[h].member IN
       /\ frame[h].pc = "dm_send" /\ frame[h].reason = "Within limits"
       /\ streak[u].n = 4 /\ streak[u].ok
       /\ now - streak[u].start = BlockTicks
       /\ u \in DOMAIN dm_rate_limits
       /\ dm_rate_limits[u].count = 0
       /\ dm_rate_limits[u].blocked_until = NoneT
       /\ dm_rate_limits[u].total_attempts = 4

\* The times of the joins of guild g whose handler ran its metrics update.
JoinTimes(g) == {join_times[g][i] : i \in DOMAIN join_times[g]}

\* How many of those joins fell at a time in the set ts.
JoinsAt(g, ts) == Cardinality({i \in DOMAIN join_times[g] : join_times[g][i] \in ts})

\* C29: with join handlers interleaved and no cache initialization or guild
\* removal, new_member_joins_today is the number of joins whose handler ran its
\* metrics update, and every hourly, daily and weekly bucket holds the number
\* of those joins that fell in it.
C29_NoLostIncrements ==
    \A g \in Guilds :
       LET cd == CacheOf(guild_cache, g)
           jp == cd.join_patterns
           ts == JoinTimes(g)
       IN /\ cd.new_member_joins_today = Len(join_times[g])
          /\ \A k \in DOMAIN jp.hourly \cup {HourOf(t) : t \in ts} :
                Get(jp.hourly, k) = JoinsAt(g, {t \in ts : HourOf(t) = k})
          /\ \A k \in DOMAIN jp.daily \cup {DayOf(t) : t \in ts} :
                Get(jp.daily, k) = JoinsAt(g, {t \in ts : DayOf(t) = k})
          /\ \A k \in DOMAIN jp.weekly \cup {WeekOf(t) : t \in ts} :
                Get(jp.weekly, k) = JoinsAt(g, {t \in ts : WeekOf(t) = k})

\* Two handlers are suspended at once, their joins counted in one hourly bucket
\* and in two daily ones.
C29_Witness ==
    \E g \in Guilds :
       /\ Len(join_times[g]) = 2
       /\ \A h \in Procs : frame[h].handler = "join" /\ ~Free(h)
       /\ g \in DOMAIN guild_cache
       /\ guild_cache[g].new_member_joins_today = 2
       /\ \E k \in DOMAIN guild_cache[g].join_patterns.hourly :
             guild_cache[g].join_patterns.hourly[k] = 2
       /\ Cardinality(DOMAIN guild_cache[g].join_patterns.daily) = 2

\* The task is suspended inside the body of its "async with": it holds a lock.
InSection(t) == TaskOf(t).pc \in {"find", "gather", "count", "delete"}

\* C22: for every guild, at most one cache_all or delete_guild call is inside
\* its lock-protected section at any time.
C22_OneInSection ==
    \A g \in Guilds :
       Cardinality({t \in Tasks : InSection(t) /\ TaskOf(t).guild = g}) <= 1

\* A call begins in slot t in this step.
CallMade(t) == nevents' = nevents + 1 /\ FirstFreeTask(t)

\* C23: the manager is initialized exactly when an initialize() has returned and
\* no close() was called since; a collection access, a cache_all or a
\* delete_guild call raises RuntimeError at once exactly when it is not; an
\* initialize() whose ping fails leaves _initialized as it was, uninitialized
\* when no other initialize() succeeded; initialize() on an initialized manager
\* returns at once and changes nothing; an initialize() whose ping succeeds,
\* also after a close(), leaves the manager initialized.
C23_UsableWhenInitialized ==
    /\ [](initialized <=> opened)
    /\ [][\A t \in Tasks :
            LET f == TaskOf(t)
                f2 == TaskOf(t)'
            IN
            /\ CallMade(t) /\ f2.op \in {"access", "cache_all", "delete_guild"} =>
                  ((f2.pc = "done" /\ f2.result = "RuntimeError") <=> ~opened)
            /\ CallMade(t) /\ f2.op = "initialize" /\ opened =>
                  /\ f2.pc = "done" /\ f2.result = "ok"
                  /\ UNCHANGED << initialized, client, cache_locks, locks, servers >>
            /\ f.pc = "ping" /\ f2.result = "raised" =>
                  /\ initialized' = initialized
                  /\ ~opened => ~initialized'
            /\ f.pc = "ping" /\ f2.result = "ok" => initialized'
            /\ CallMade(t) /\ f2.op = "close" => ~initialized'
       ]_vars

\* A manager that was initialized, closed and initialized again is in use: a
\* cache_all or delete_guild call made after the second initialize() holds a
\* guild lock, and the close() was called on the initialized manager.
C23_Witness ==
    /\ initialized
    /\ \E t \in Tasks : TaskOf(t).op = "close" /\ TaskOf(t).was_init
    /\ \E t \in Tasks : TaskOf(t).op = "initialize" /\ TaskOf(t).result = "ok"
                        /\ ~TaskOf(t).was_init
    /\ \E t \in Tasks : InSection(t) /\ TaskOf(t).was_init

\* The guild's stored record carries an updated_at less than one hour old.
Fresh(g) ==
    /\ g \in DOMAIN servers
    /\ servers[g].set
    /\ now - Parse(servers[g]) < TicksPerHour

\* C30: a cache_all call that holds its lock starts all four caching operations
\* at once when force_refresh is true (or when the manager was closed while it
\* waited: the freshness check fails on the collection); otherwise it reads the
\* stored record, and when find_one returns it starts none of the four and
\* returns if the record's updated_at is less than one hour old, and starts all
\* four if find_one raised, found no record, found none with updated_at, or
\* found one at least one hour old.
C30_RefreshWhenStale ==
    [][\A t \in Tasks :
          LET f == TaskOf(t)
              f2 == TaskOf(t)'
              entered == /\ f2.op = "cache_all"
                         /\ CallMade(t) \/ f.pc = "wait"
                         /\ f2.pc # "wait" /\ f2.result # "RuntimeError"
          IN
          /\ entered /\ f2.force_refresh => f2.pc = "gather" /\ f2.ran = 4
          /\ entered /\ ~f2.force_refresh =>
                IF initialized THEN f2.pc = "find" /\ f2.ran = 0
                ELSE f2.pc = "gather" /\ f2.ran = 4
          /\ f.pc = "find" /\ f2 # f =>
                IF f2.stored = "read" /\ Fresh(f.guild)
                THEN f2.pc = "done" /\ f2.result = "ok" /\ f2.ran = 0
                ELSE f2.pc = "gather" /\ f2.ran = 4
          /\ f.pc = "gather" /\ f2 # f => f2.pc = "done" /\ f2.ran = 4
      ]_vars

\* One cache_all call has returned without caching, the record being half an
\* hour old when it looked; the next one, looking when the record was exactly
\* one hour old, is running the four caching operations.
C30_Witness ==
    /\ \E t \in Tasks :
          /\ TaskOf(t).op = "cache_all" /\ TaskOf(t).pc = "done"
          /\ ~TaskOf(t).force_refresh /\ TaskOf(t).stored = "read" /\ TaskOf(t).ran = 0
    /\ \E t \in Tasks :
          /\ TaskOf(t).op = "cache_all" /\ TaskOf(t).pc = "gather"
          /\ ~TaskOf(t).force_refresh /\ TaskOf(t).stored = "read" /\ TaskOf(t).ran = 4
          /\ TaskOf(t).guild \in DOMAIN servers
          /\ servers[TaskOf(t).guild].set
          /\ Parse(TaskOf(t).stamp) - Parse(servers[TaskOf(t).guild]) = TicksPerHour

\* The stored vote of user u on question q ("none": no vote stored).
StoredVote(q, u) ==
    IF u \in DOMAIN questions[q].votes THEN questions[q].votes[u] ELSE "none"

\* The users whose stored vote on question q is option o.
VotersOf(q, o) == {u \in Voters : StoredVote(q, u) = o}

\* vote_counts of question q agrees with its stored votes.
CountsMatch(q) ==
    \A o \in Options : questions[q].vote_counts[o] = Cardinality(VotersOf(q, o))

\* A step changes vote_counts of q by what it does to the stored votes: a first
\* vote adds 1 to its option, a changed vote moves 1 from the old option to the
\* new one, and a step that stores no different vote leaves the counts alone.
CountsFollowVotes(q) ==
    \A o \in Options :
        questions'[q].vote_counts[o] =
            questions[q].vote_counts[o]
            + Cardinality({u \in Voters : StoredVote(q, u) # o /\ StoredVote(q, u)' = o})
            - Cardinality({u \in Voters : StoredVote(q, u) = o /\ StoredVote(q, u)' # o})

\* C31: when votes are handled one at a time, vote_counts[o] of every question
\* is the number of users whose stored vote is o; a first vote adds 1 to the
\* chosen option, a changed vote moves 1 from the old option to the new one,
\* and a repeated identical vote changes nothing.
C31_SequentialCountsMatch ==
    /\ [](\A q \in Questions : CountsMatch(q))
    /\ [][\A q \in Questions :
            /\ CountsFollowVotes(q)
            /\ \A c \in Slots :
                 (VoteUpdated(c) /\ CoroOf(c).previous = CoroOf(c).option)
                     => UNCHANGED questions]_vars

\* A changed vote has been stored: the user's old option lost the vote, the new
\* one has it.
C31_ChangedVoteStored ==
    \E c \in Slots :
        LET f == CoroOf(c) IN
        /\ f.op = "vote" /\ f.pc = "reply"
        /\ f.previous \in Options /\ f.previous # f.option
        /\ StoredVote(f.question, f.user) = f.option
        /\ questions[f.question].vote_counts[f.option] = 1
        /\ questions[f.question].vote_counts[f.previous] = 0

\* C32: when votes are handled concurrently, interleaved at their awaits,
\* vote_counts of every question and option is still the number of users whose
\* stored vote is that option, also for two concurrent votes of one user on
\* one question.
C32_ConcurrentCountsMatch ==
    \A q \in Questions, o \in Options :
        questions[q].vote_counts[o] = Cardinality({u \in Voters : StoredVote(q, u) = o})

\* The questions that hold a stored vote of user u.
QuestionsVoted(u) == {q \in Questions : StoredVote(q, u) # "none"}

\* C33: when votes are handled one at a time, after each vote every user's
\* leaderboard entry has option1_votes + option2_votes = total_votes, and
\* total_votes is the number of distinct questions the user has voted on.
C33_LeaderboardMatchesVotes ==
    NoVoteInFlight =>
        \A u \in Voters :
            Entries(u) # << >> =>
                LET e == Entries(u)[1] IN
                /\ e.option1_votes + e.option2_votes = e.total_votes
                /\ e.total_votes = Cardinality(QuestionsVoted(u))

\* The slots that hold a pending scheduler run: created, asleep or posting.
SchedRuns == {c \in Slots : CoroOf(c).op = "sched" /\ CoroOf(c).pc # "done"}

\* The awaits of a post attempt.
Posting == {"pick", "send", "original", "thread", "starter", "inc"}

\* The scheduler run in slot c ends its post attempt in this step.
AttemptEnds(c) ==
    /\ CoroOf(c).op = "sched" /\ CoroOf(c).pc \in Posting
    /\ CoroOf(c)'.pc \notin Posting

\* The scheduler run in slot c falls into the fallback in this step.
SchedulingFails(c) == CoroOf(c).pc # "retry_sleep" /\ CoroOf(c)'.pc = "retry_sleep"

\* The fallback of the scheduler run in slot c ends in this step.
RetryEnds(c) == CoroOf(c).pc = "retry_sleep" /\ CoroOf(c)'.pc # "retry_sleep"

\* Slot c holds exactly the one new run that follows run f.
OneNewRun(c, f) ==
    /\ CoroOf(c)'.op = "sched" /\ CoroOf(c)'.pc = "start" /\ CoroOf(c)'.run = f.run + 1
    /\ SchedRuns' = {c}

\* C34: once initialize_database has succeeded the scheduler neither stops nor
\* duplicates: at most one scheduler run is pending at any time and the one
\* pending never goes away; every scheduled post attempt (posted, skipped or
\* failed) ends by starting exactly one new run; an error in scheduling puts
\* the run to sleep for one hour, after which exactly one retry run is started;
\* and a post attempt that began is followed by the next run.
C34_SchedulerNeitherStopsNorDuplicates ==
    /\ [](Cardinality(SchedRuns) <= 1)
    /\ [][/\ Cardinality(SchedRuns) = 1 => Cardinality(SchedRuns') = 1
          /\ \A c \in Slots :
               /\ (CoroOf(c).op = "init" /\ CoroOf(c)'.op = "sched") => SchedRuns' = {c}
               /\ AttemptEnds(c) => OneNewRun(c, CoroOf(c))
               /\ SchedulingFails(c) => CoroOf(c)'.until = now + TicksPerHour
               /\ RetryEnds(c) => now >= CoroOf(c).until /\ OneNewRun(c, CoroOf(c))]_vars
    /\ \A n \in 1..(MaxSchedTicks + 1) :
         (\E c \in Slots : CoroOf(c).op = "sched" /\ CoroOf(c).pc \in Posting
                           /\ CoroOf(c).run = n)
            ~> (\E c \in Slots : CoroOf(c).op = "sched" /\ CoroOf(c).pc # "done"
                                 /\ CoroOf(c).run = n + 1)

\* A question was posted by the scheduler, a retry went by, and a later run
\* sleeps until a 6 AM that is still to come.
C34_PostedAndRescheduled ==
    \E c \in Slots, q \in Questions :
        /\ CoroOf(c).op = "sched" /\ CoroOf(c).pc = "sleep"
        /\ CoroOf(c).run >= 3 /\ CoroOf(c).until > now
        /\ questions[q].used_count = 1

\* C35: starting from equal used_count values, with questions picked only
\* through get_next_question (scheduled posts and manual non-random posts,
\* interleaved in any way, failing part-way or not), the used_count values of
\* the questions never differ by more than 1.
C35_RotationEven ==
    \A p \in Questions, q \in Questions :
        questions[p].used_count - questions[q].used_count <= 1

\* The months of a collection that have a monthly document.
MonthsOf(coll) == {m \in Months : << coll, m >> \in DOMAIN stats_monthly}

\* The sum of the monthly counts of a collection.
RECURSIVE SumCounts(_, _)
SumCounts(coll, ms) ==
    IF ms = {} THEN 0
    ELSE LET m == CHOOSE x \in ms : TRUE
         IN stats_monthly[<< coll, m >>] + SumCounts(coll, ms \ {m})

\* a hundredths is total / months rounded to 2 decimals: no hundredth is nearer.
IsRounded(a, total, months) ==
    /\ 2 * (a * months - 100 * total) <= months
    /\ 2 * (100 * total - a * months) <= months

\* C36: while no database call of the tracker has failed, for every tracked
\* collection total_count is the sum of its monthly counts, months_with_data is
\* the number of its monthly documents, average_per_month is total_count /
\* months_with_data rounded to 2 decimals, and months_with_data grows exactly
\* when an event creates the monthly document of its month.
C36_TotalsMatchMonthly ==
    /\ [](~db_failed =>
            \A coll \in Colls :
                /\ coll \in DOMAIN stats_totals <=> MonthsOf(coll) # {}
                /\ coll \in DOMAIN stats_totals =>
                      LET t == stats_totals[coll] IN
                      /\ t.total_count = SumCounts(coll, MonthsOf(coll))
                      /\ t.months_with_data = Cardinality(MonthsOf(coll))
                      /\ IsRounded(t.average_per_month, t.total_count, t.months_with_data))
    /\ [][~db_failed' =>
            \A coll \in Colls :
                Totals(coll)'.months_with_data - Totals(coll).months_with_data
                    = Cardinality(MonthsOf(coll)' \ MonthsOf(coll))]_vars

\* Without a database error a collection got 4 events over 3 months, one of
\* them in a month that had its document already: the average is 1.33.
C36_FourEventsThreeMonths ==
    /\ ~db_failed
    /\ \E coll \in Colls :
         /\ coll \in DOMAIN stats_totals
         /\ stats_totals[coll].total_count = 4
         /\ stats_totals[coll].months_with_data = 3
         /\ stats_totals[coll].average_per_month = 133
         /\ \A d \in DropSlots : FreeDrop(d)

=============================================================================
